---- MODULE Spec2Model ----
(***************************************************************************)
(* SocTalk: event store, CQRS projector, human-review resolution and the   *)
(* investigation workflow, modelled from the Python sources.               *)
(*                                                                         *)
(* SpecStore  - EventStore.append / append_batch called from concurrent    *)
(*              database sessions (PostgreSQL, READ COMMITTED, the unique  *)
(*              constraints uq_aggregate_version and                       *)
(*              ix_events_idempotency_key).                                *)
(* SpecFlow   - one investigation driven by the workflow graph, the REST   *)
(*              review and lifecycle endpoints and the resume loop, with   *)
(*              the projector applied on every append.                     *)
(***************************************************************************)
EXTENDS Integers, Sequences, FiniteSets, TLC

VARIABLES
    \* ---- event store (SpecStore) ----
    stTable,    \* committed rows of the events table
    stPend,     \* per session: rows flushed but not yet committed
    stPc,       \* per session: the call in progress and the values it has read
    stRes,      \* outcome of the call completed by the last step (NoRes if none)
    stNextId,   \* next event id (uuid4 stands for a fresh id)
    \* ---- one investigation (SpecFlow) ----
    fMode,      \* HIL backend the workflow waits on: "chat" or "dashboard"
    fWf,        \* position of the workflow graph
    fState,     \* checkpointed graph state: flag, human_decision, verdict, ...
    fResuming,  \* review whose decision the resume loop is delivering (0: none)
    fChecked,   \* review for which the loop has read the status (0: none)
    fLog,       \* events of the aggregate, in version order
    fInv,       \* the investigation's read-model row
    fReviews,   \* PendingReview rows of the investigation, in creation order
    fCall,      \* REST review calls in progress and their responses
    \* ---- the workflow graph alone (SpecGraph) ----
    gNode,      \* node the engine runs next
    gIter,      \* state["iteration_count"]
    gRetry,     \* state["verdict_retry_count"]
    gAction,    \* state["supervisor_decision"]["next_action"]
    gSup,       \* number of supervisor invocations so far
    gNmi,       \* number of needs_more_info verdicts rendered so far
    gSteps,     \* nodes run since the start or the last human decision
    \* ---- the investigation queue (SpecQueue) ----
    qHeap,      \* _heap: the list heapq keeps, of priority and investigation
    qSeen,      \* _seen_ids
    qBlock,     \* _title_block_until, in minutes (0: no entry)
    qNow,       \* datetime.now(), in minutes
    qRes,       \* the call completed by the last step and what it returned
    qAccepted,  \* every add accepted so far: id, title and time
    \* ---- the alert poller (SpecPoller) ----
    pSeen,      \* _seen_alert_ids
    pBuffer,    \* _alert_buffer
    pBatch,     \* the batch the last poll() returned
    pCount,     \* per alert id: how often poll() has returned it
    pRefetched, \* alert ids the SIEM returned again after they were seen
    \* ---- the alert correlator (SpecCorrelator) ----
    cAlerts,    \* the batch of alerts handed to correlate()
    cDone,      \* correlate() has returned
    cResult,    \* the investigations correlate() returned
    \* ---- the event tailer and the event bus (SpecSse) ----
    eNow,       \* the clock, in seconds
    eTs,        \* per event id: the timestamp it was created with, 0 if not yet
    eOpen,      \* events written by a transaction that has not committed
    eDb,        \* events committed to the events table
    tStarted,   \* the tailer has run its initial query
    tLast,      \* last_timestamp of the tailer, 0 for None
    tSeen,      \* last_seen_ids of the tailer
    tPublished, \* every event the tailer has published, in order
    bSubs,      \* _subscribers of the bus
    bQueue,     \* per subscriber: its queue
    bLog,       \* the publishes of the last poll: event, subscribers, queue
                \* lengths before and the subscribers whose queue took it
    \* ---- the severity of the read model (SpecSeverity) ----
    mAlerts,    \* the alerts of the investigation that is run
    mPos,       \* events projected: 0 none, 1 INVESTIGATION_CREATED, 1 + k
                \* the ALERT_CORRELATED of the first k alerts too
    mMax,       \* max_severity of the read-model row, "none" for None
    \* ---- the status of a closed investigation (SpecClosure) ----
    kIn,        \* the state the close node or the reject handler starts from
    kDone,      \* INVESTIGATION_CLOSED has been emitted and projected
    kEv,        \* the INVESTIGATION_CLOSED event
    kRow,       \* the read-model row of the investigation
    \* ---- the resume loop over the decided reviews (SpecResume) ----
    rKind,      \* per decided review: what the loop finds when it reaches it
    rMarked,    \* reviews whose workflow_resumed_at is set
    rResumed,   \* reviews whose workflow the loop has resumed
    \* ---- appends with an idempotency key (SpecReplay) ----
    yLog,       \* the events of the investigation, each with its key
    yInv,       \* the read-model row of the investigation
    yReviews,   \* the PendingReview rows of the investigation
    yMetrics,   \* counters of the hourly metrics row
    yCall,      \* the last append: its number and whether its key was stored
    \* ---- a consumer blocked in get while add runs (SpecWait) ----
    wCons,      \* where the consumer task of _main_loop stands inside get
    wProd,      \* where the producer task stands inside add
    wSince,     \* ids accepted by add since the consumer entered get
    \* ---- the order of delivery on the event bus (SpecBus) ----
    uSubs,      \* _subscribers of the bus
    uQueue,     \* per subscriber: its queue
    uPublished, \* the events given to publish, in the order of the calls
    uRecv,      \* per subscriber: the events its generator has taken, in order
    uDropped    \* per subscriber: the events its full queue did not take

storeVars == <<stTable, stPend, stPc, stRes, stNextId>>

flowVars == <<fMode, fWf, fState, fResuming, fChecked, fLog, fInv, fReviews,
              fCall>>

graphVars == <<gNode, gIter, gRetry, gAction, gSup, gNmi, gSteps>>

queueVars == <<qHeap, qSeen, qBlock, qNow, qRes, qAccepted>>

pollerVars == <<pSeen, pBuffer, pBatch, pCount, pRefetched>>

correlatorVars == <<cAlerts, cDone, cResult>>

sseVars == <<eNow, eTs, eOpen, eDb, tStarted, tLast, tSeen, tPublished, bSubs, bQueue, bLog>>

severityVars == <<mAlerts, mPos, mMax>>

closureVars == <<kIn, kDone, kEv, kRow>>

resumeVars == <<rKind, rMarked, rResumed>>

replayVars == <<yLog, yInv, yReviews, yMetrics, yCall>>

waitVars == <<wCons, wProd, wSince>>

busVars == <<uSubs, uQueue, uPublished, uRecv, uDropped>>

vars == <<storeVars, flowVars, graphVars, queueVars, pollerVars, correlatorVars, sseVars, severityVars, closureVars, resumeVars, replayVars, waitVars, busVars>>

\* what the steps of one specification leave alone
othersOfStore == <<flowVars, graphVars, queueVars, pollerVars, correlatorVars, sseVars, severityVars, closureVars, resumeVars, replayVars, waitVars, busVars>>
othersOfFlow == <<storeVars, graphVars, queueVars, pollerVars, correlatorVars, sseVars, severityVars, closureVars, resumeVars, replayVars, waitVars, busVars>>
othersOfGraph == <<storeVars, flowVars, queueVars, pollerVars, correlatorVars, sseVars, severityVars, closureVars, resumeVars, replayVars, waitVars, busVars>>
othersOfQueue == <<storeVars, flowVars, graphVars, pollerVars, correlatorVars, sseVars, severityVars, closureVars, resumeVars, replayVars, waitVars, busVars>>
othersOfPoller == <<storeVars, flowVars, graphVars, queueVars, correlatorVars, sseVars, severityVars, closureVars, resumeVars, replayVars, waitVars, busVars>>
othersOfCorrelator == <<storeVars, flowVars, graphVars, queueVars, pollerVars, sseVars, severityVars, closureVars, resumeVars, replayVars, waitVars, busVars>>
othersOfSse == <<storeVars, flowVars, graphVars, queueVars, pollerVars, correlatorVars, severityVars, closureVars, resumeVars, replayVars, waitVars, busVars>>
othersOfSeverity == <<storeVars, flowVars, graphVars, queueVars, pollerVars, correlatorVars, sseVars, closureVars, resumeVars, replayVars, waitVars, busVars>>
othersOfClosure == <<storeVars, flowVars, graphVars, queueVars, pollerVars, correlatorVars, sseVars, severityVars, resumeVars, replayVars, waitVars, busVars>>
othersOfResume == <<storeVars, flowVars, graphVars, queueVars, pollerVars, correlatorVars, sseVars, severityVars, closureVars, replayVars, waitVars, busVars>>
othersOfReplay == <<storeVars, flowVars, graphVars, queueVars, pollerVars, correlatorVars, sseVars, severityVars, closureVars, resumeVars, waitVars, busVars>>
othersOfWait == <<storeVars, flowVars, graphVars, pollerVars, correlatorVars, sseVars, severityVars, closureVars, resumeVars, replayVars, busVars>>
othersOfBus == <<storeVars, flowVars, graphVars, queueVars, pollerVars, correlatorVars, sseVars, severityVars, closureVars, resumeVars, replayVars, waitVars>>

(***************************************************************************)
(* Bounds of the model                                                     *)
(***************************************************************************)
MaxEvents == 3      \* event rows ever created in SpecStore
MaxLog == 8         \* events appended for the investigation in SpecFlow
MaxRounds == 2      \* entries of the human-review node in SpecFlow
MaxIter == 12       \* supervisor invocations of one run in SpecGraph
MaxRetry == 3       \* needs_more_info verdicts of one run in SpecGraph
MaxSize == 3        \* max_size of the investigation queue in SpecQueue
MaxTime == 10       \* minutes the clock of SpecQueue runs
MaxFetch == 2       \* alerts one fetch from the SIEM returns in SpecPoller
BatchSize == 1      \* batch_size of the poller in SpecPoller
MaxAlerts == 3      \* alerts of the batch handed to correlate()
NumKeys == 2        \* distinct correlation keys of the alerts of a batch
MaxBusEvents == 2   \* events written to the events table in SpecSse
MaxBusClock == 3    \* seconds the clock of SpecSse runs
MaxBusQueue == 1    \* max_queue_size of the event bus in SpecSse
MaxInvAlerts == 3   \* alerts of the investigation in SpecSeverity
NumReviews == 11    \* decided reviews waiting for the resume loop in SpecResume
MaxAppends == 5     \* appends through the projecting store in SpecReplay
BusCapacity == 2    \* max_queue_size of the event bus in SpecBus
MaxPublished == 4   \* calls of publish in SpecBus

(***************************************************************************)
(* Event store: persistence/store.py, persistence/models.py                *)
(***************************************************************************)
Sessions == {"s1", "s2"}
Aggregates == {"a1", "a2"}
NoKey == "none"
Keys == {"k1"}

Max(S) == CHOOSE x \in S : \A y \in S : y <= x

\* rows a session's statements can see: committed rows and its own writes
Visible(s) == stTable \cup stPend[s]

\* EventStore.get_latest_version: highest version of the aggregate, 0 if none
get_latest_version_any(s, a) ==
    LET vs == {r.version : r \in Visible(s)}
    IN  IF vs = {} THEN 0 ELSE Max(vs)

get_latest_version(s, a) ==
    LET vs == {r.version : r \in {x \in Visible(s) : x.agg = a}}
    IN  IF vs = {} THEN 0 ELSE Max(vs)

\* EventStore._get_by_idempotency_key: the rows carrying the key (at most one)
get_by_idempotency_key(s, k) == {r \in Visible(s) : r.key = k}

\* the optimistic concurrency check of append and append_batch;
\* exp is {} for expected_version=None and {e} otherwise
ExpectedOk_unchecked(exp, cur) == TRUE

ExpectedOk(exp, cur) == exp = {} \/ exp = {cur}

\* new_version = current_version + 1
NewVersion(cur) == cur + 1

\* two rows that the unique constraints forbid to coexist
ConflictVersion(r, c) == c.agg = r.agg /\ c.version = r.version
ConflictKey(r, c) == r.key # NoKey /\ c.key = r.key
Conflict(r, c) == ConflictVersion(r, c) \/ ConflictKey(r, c)

\* rows already committed (or written by the session itself) that make the
\* INSERT of rows fail with IntegrityError
Clashing_none(s, rows) == {}

Clashing(s, rows) == {c \in Visible(s) : \E r \in rows : Conflict(r, c)}

\* sessions whose uncommitted rows make the INSERT wait for their end
WaitsFor(s, rows) ==
    {t \in Sessions \ {s} : \E r \in rows, c \in stPend[t] : Conflict(r, c)}

IdlePc == [op |-> "idle", step |-> "idle", agg |-> "a1", exp |-> {},
           key |-> NoKey, cur |-> 0, n |-> 0, had |-> 0]

NoRes == [s |-> "s1", kind |-> "none", op |-> "idle", id |-> 0, version |-> 0,
          expected |-> 0, actual |-> 0, exp |-> {}, cur |-> 0, had |-> 0,
          n |-> 0, agg |-> "a1", key |-> NoKey]

Res(s, pc, kind, id, version, expected, actual) ==
    [s |-> s, kind |-> kind, op |-> pc.op, id |-> id, version |-> version,
     expected |-> expected, actual |-> actual, exp |-> pc.exp, cur |-> pc.cur,
     had |-> pc.had, n |-> pc.n, agg |-> pc.agg, key |-> pc.key]

\* append_batch numbering the events of the batch from the last to the first
NewRows_reversed(s) ==
    LET pc == stPc[s]
    IN  {[id |-> stNextId + i - 1, agg |-> pc.agg,
          version |-> pc.cur + pc.n - i + 1, key |-> pc.key,
          first |-> stNextId, n |-> pc.n] : i \in 1..pc.n}

\* the rows the pending call is about to insert; first and n tell the call
\* that wrote a row: the id of its first row and the number of its rows
NewRows(s) ==
    LET pc == stPc[s]
    IN  IF pc.op = "append"
        THEN {[id |-> stNextId, agg |-> pc.agg,
               version |-> NewVersion(pc.cur), key |-> pc.key,
               first |-> stNextId, n |-> 1]}
        ELSE {[id |-> stNextId + i - 1, agg |-> pc.agg,
               version |-> pc.cur + i, key |-> NoKey,
               first |-> stNextId, n |-> pc.n] : i \in 1..pc.n}

StoreInit ==
    /\ stTable = {}
    /\ stPend = [s \in Sessions |-> {}]
    /\ stPc = [s \in Sessions |-> IdlePc]
    /\ stRes = NoRes
    /\ stNextId = 1

\* append, lines 82-88: read the current version, check expected_version;
\* line 91: the idempotency lookup is made only for a key that is given
AppendStart(s, a, exp, k) ==
    /\ stPc[s].op = "idle"
    /\ stNextId <= MaxEvents
    /\ LET cur == get_latest_version(s, a)
           had == {r.id : r \in get_by_idempotency_key(s, k)}
           pc  == [op |-> "append",
                   step |-> IF k = NoKey THEN "flush" ELSE "idem",
                   agg |-> a, exp |-> exp,
                   key |-> k, cur |-> cur, n |-> 1,
                   had |-> IF k = NoKey \/ had = {} THEN 0 ELSE Max(had)]
       IN  IF ExpectedOk(exp, cur)
           THEN /\ stPc' = [stPc EXCEPT ![s] = pc]
                /\ stRes' = NoRes
           ELSE /\ stPc' = [stPc EXCEPT ![s] = IdlePc]
                /\ stRes' = (Res(s, pc, "ConcurrencyError", 0, 0, Max(exp), cur))
    /\ UNCHANGED <<stTable, stPend, stNextId>>

\* append, lines 91-99: return the stored event of the idempotency key
AppendIdem(s) ==
    LET pc == stPc[s]
        existing == get_by_idempotency_key(s, pc.key)
    IN  /\ pc.op = "append" /\ pc.step = "idem"
        /\ IF existing # {}
           THEN LET e == CHOOSE r \in existing : TRUE
                IN  /\ stPc' = [stPc EXCEPT ![s] = IdlePc]
                    /\ stRes' = (Res(s, pc, "existing", e.id, e.version, 0, 0))
           ELSE /\ stPc' = [stPc EXCEPT ![s] = [pc EXCEPT !.step = "flush"]]
                /\ stRes' = NoRes
        /\ UNCHANGED <<stTable, stPend, stNextId>>

\* append, lines 113-123: session.add + flush succeed
AppendFlush(s) ==
    LET pc == stPc[s]
        rows == NewRows(s)
    IN  /\ pc.op = "append" /\ pc.step = "flush"
        /\ Clashing(s, rows) = {}
        /\ WaitsFor(s, rows) = {}
        /\ stPend' = [stPend EXCEPT ![s] = @ \cup rows]
        /\ stNextId' = stNextId + 1
        /\ stPc' = [stPc EXCEPT ![s] = IdlePc]
        /\ stRes' = (Res(s, pc, "ok", stNextId, NewVersion(pc.cur), 0, 0))
        /\ UNCHANGED stTable

\* append, lines 124-133: IntegrityError, rollback of the session, and the
\* error raised according to the constraint named in the message
AppendIntegrityError(s) ==
    LET pc == stPc[s]
        rows == NewRows(s)
        clash == Clashing(s, rows)
    IN  /\ pc.op = "append" /\ pc.step = "flush"
        /\ clash # {}
        /\ stPend' = [stPend EXCEPT ![s] = {}]
        /\ stPc' = [stPc EXCEPT ![s] = IdlePc]
        /\ \E c \in clash, r \in rows :
             \/ /\ ConflictVersion(r, c)
                /\ LET actual == LET vs == {x.version : x \in
                                               {y \in stTable : y.agg = pc.agg}}
                                 IN  IF vs = {} THEN 0 ELSE Max(vs)
                   IN  stRes' = (Res(s, pc, "ConcurrencyError", 0, 0,
                               NewVersion(pc.cur) - 1, actual))
             \/ /\ ConflictKey(r, c)
                /\ stRes' = (Res(s, pc, "IdempotencyError", 0, 0, 0, 0))
        /\ UNCHANGED <<stTable, stNextId>>

\* append_batch, lines 153-156
BatchStart(s, a, n, exp) ==
    /\ stPc[s].op = "idle"
    /\ stNextId + n - 1 <= MaxEvents
    /\ LET cur == get_latest_version(s, a)
           pc  == [op |-> "batch", step |-> "flush", agg |-> a, exp |-> exp,
                   key |-> NoKey, cur |-> cur, n |-> n, had |-> 0]
       IN  IF ExpectedOk(exp, cur)
           THEN /\ stPc' = [stPc EXCEPT ![s] = pc]
                /\ stRes' = NoRes
           ELSE /\ stPc' = [stPc EXCEPT ![s] = IdlePc]
                /\ stRes' = (Res(s, pc, "ConcurrencyError", 0, 0, Max(exp), cur))
    /\ UNCHANGED <<stTable, stPend, stNextId>>

\* append_batch, lines 158-176: all rows are added, one flush
BatchFlush(s) ==
    LET pc == stPc[s]
        rows == NewRows(s)
    IN  /\ pc.op = "batch" /\ pc.step = "flush"
        /\ Clashing(s, rows) = {}
        /\ WaitsFor(s, rows) = {}
        /\ stPend' = [stPend EXCEPT ![s] = @ \cup rows]
        /\ stNextId' = stNextId + pc.n
        /\ stPc' = [stPc EXCEPT ![s] = IdlePc]
        /\ stRes' = (Res(s, pc, "ok", stNextId, pc.cur + 1, 0, 0))
        /\ UNCHANGED stTable

\* append_batch: the flush raises IntegrityError, which append_batch does not
\* catch; the owner of the session rolls back (database.py, lines 58-60)
BatchIntegrityError(s) ==
    LET pc == stPc[s]
        rows == NewRows(s)
    IN  /\ pc.op = "batch" /\ pc.step = "flush"
        /\ Clashing(s, rows) # {}
        /\ stPend' = [stPend EXCEPT ![s] = {}]
        /\ stPc' = [stPc EXCEPT ![s] = IdlePc]
        /\ stRes' = Res(s, pc, "IntegrityError", 0, 0, 0, 0)
        /\ UNCHANGED <<stTable, stNextId>>

\* two sessions wait for each other's uncommitted rows: the database aborts
\* one of them with an error that is no IntegrityError; its owner rolls back
DeadlockAbort(s) ==
    LET pc == stPc[s]
    IN  /\ pc.step = "flush"
        /\ \E t \in WaitsFor(s, NewRows(s)) :
             /\ stPc[t].step = "flush"
             /\ s \in WaitsFor(t, NewRows(t))
        /\ stPend' = [stPend EXCEPT ![s] = {}]
        /\ stPc' = [stPc EXCEPT ![s] = IdlePc]
        /\ stRes' = Res(s, pc, "DeadlockDetected", 0, 0, 0, 0)
        /\ UNCHANGED <<stTable, stNextId>>

\* session.commit() by the owner of the session
Commit(s) ==
    /\ stPc[s].op = "idle"
    /\ stPend[s] # {}
    /\ stTable' = stTable \cup stPend[s]
    /\ stPend' = [stPend EXCEPT ![s] = {}]
    /\ stRes' = NoRes
    /\ UNCHANGED <<stPc, stNextId>>

\* session.rollback() by the owner of the session
Rollback(s) ==
    /\ stPc[s].op = "idle"
    /\ stPend[s] # {}
    /\ stPend' = [stPend EXCEPT ![s] = {}]
    /\ stRes' = NoRes
    /\ UNCHANGED <<stTable, stPc, stNextId>>

\* expected_version arguments: None, 0 ("create") and 1; batches of two events
ExpectedChoices == {{}, {0}, {1}}
BatchSizes == {2}

StoreAppendStart == \E s \in Sessions, a \in Aggregates, exp \in ExpectedChoices,
                       k \in Keys \cup {NoKey} : AppendStart(s, a, exp, k) /\ UNCHANGED othersOfStore
StoreAppendIdem == \E s \in Sessions : AppendIdem(s) /\ UNCHANGED othersOfStore
StoreAppendFlush == \E s \in Sessions : AppendFlush(s) /\ UNCHANGED othersOfStore
StoreAppendIntegrityError == \E s \in Sessions : AppendIntegrityError(s) /\ UNCHANGED othersOfStore
StoreBatchStart == \E s \in Sessions, a \in Aggregates, n \in BatchSizes,
                      exp \in ExpectedChoices : BatchStart(s, a, n, exp) /\ UNCHANGED othersOfStore
StoreBatchFlush == \E s \in Sessions : BatchFlush(s) /\ UNCHANGED othersOfStore
StoreBatchIntegrityError == \E s \in Sessions : BatchIntegrityError(s) /\ UNCHANGED othersOfStore
StoreDeadlockAbort == \E s \in Sessions : DeadlockAbort(s) /\ UNCHANGED othersOfStore
StoreCommit == \E s \in Sessions : Commit(s) /\ UNCHANGED othersOfStore
StoreRollback == \E s \in Sessions : Rollback(s) /\ UNCHANGED othersOfStore

NextStore ==
    \/ StoreAppendStart
    \/ StoreAppendIdem
    \/ StoreAppendFlush
    \/ StoreAppendIntegrityError
    \/ StoreBatchStart
    \/ StoreBatchFlush
    \/ StoreBatchIntegrityError
    \/ StoreDeadlockAbort
    \/ StoreCommit
    \/ StoreRollback

(***************************************************************************)
(* Events and the projector: persistence/events.py, persistence/projector.py *)
(* The model keeps the row's columns status, phase, verdict_decision,      *)
(* thehive_case_id and closed_at (the version of the event that set it),   *)
(* and of a PendingReview its status and workflow_resumed_at.              *)
(***************************************************************************)
\* closure reasons of _determine_closure_reason and of reject_review
ReasonRejected == "Rejected by analyst during human review"
ReasonApproved == "Approved by analyst - incident created"
ReasonMoreInfo == "Analyst requested more information but investigation closed"
ReasonAiClose == "Closed by AI verdict - likely false positive"
ReasonEscalated == "Escalation process completed"
ReasonSupervisor == "Closed by supervisor - insufficient evidence of threat"
ReasonDefault == "Investigation completed - no action required"
ReasonRest == "closed by human review"

\* free text of an analyst's feedback, of the recommendation of a verdict or
\* of the reasoning of the supervisor; NoText is None
NoText == "none"
PlainText == "needs a second look"
RejectedText == "the vendor rejected the ticket"
AiVerdictText == "was closed by AI verdict last week"
FreeTexts == {NoText, PlainText, RejectedText, AiVerdictText}

\* a resolution is the sequence of the parts that " | " joins; a part is a
\* fixed label followed by free text
Part(label, text) == [label |-> label, text |-> text]

\* "rejected" in resolution.lower()
ContainsRejected(res) ==
    \E k \in 1..Len(res) :
        res[k].label = ReasonRejected \/ res[k].text = RejectedText

\* "closed by ai verdict" in resolution.lower()
ContainsClosedByAiVerdict(res) ==
    \E k \in 1..Len(res) :
        res[k].label = ReasonAiClose \/ res[k].text = AiVerdictText

\* an event of the aggregate; d is data["decision"], res data["resolution"],
\* vd data["verdict_decision"], case whether a TheHive case id is carried
Event(v, type, d, res, vd, case) ==
    [type |-> type, d |-> d, res |-> res, vd |-> vd, case |-> case,
     version |-> v]

NoRow == [status |-> "none", phase |-> "none", vd |-> "none", case |-> FALSE,
          closed_at |-> 0]

\* _get_or_create_investigation: a new row has the column defaults
get_or_create_investigation(row) ==
    IF row = NoRow
    THEN [status |-> "pending", phase |-> "triage", vd |-> "none",
          case |-> FALSE, closed_at |-> 0]
    ELSE row

\* _project_investigation_closed
project_investigation_closed(row, ev) ==
    LET r1 == [row EXCEPT !.case = IF ev.case THEN TRUE ELSE @,
                          !.vd = IF ev.vd # "none" THEN ev.vd ELSE @]
        st == IF r1.case THEN "escalated"
              ELSE IF ContainsRejected(ev.res) THEN "rejected"
              ELSE IF ev.vd = "close" /\ ContainsClosedByAiVerdict(ev.res)
                   THEN "auto_closed"
              ELSE "closed"
    IN  [r1 EXCEPT !.status = st, !.closed_at = ev.version, !.phase = "closed"]

\* Projector.project on the investigation row
ProjectInv(row0, ev) ==
    LET row == get_or_create_investigation(row0)
    IN  CASE ev.type = "INVESTIGATION_CREATED" ->
                [row EXCEPT !.status = "pending", !.phase = "triage"]
          [] ev.type = "INVESTIGATION_STARTED" ->
                [row EXCEPT !.status = "in_progress"]
          [] ev.type = "INVESTIGATION_PAUSED" ->
                [row EXCEPT !.status = "paused"]
          [] ev.type = "INVESTIGATION_RESUMED" ->
                [row EXCEPT !.status = "in_progress"]
          [] ev.type = "INVESTIGATION_CANCELLED" ->
                [row EXCEPT !.status = "cancelled", !.closed_at = ev.version,
                            !.phase = "closed"]
          [] ev.type = "VERDICT_RENDERED" ->
                [row EXCEPT !.phase = "verdict", !.vd = ev.d]
          [] ev.type = "INVESTIGATION_CLOSED" ->
                project_investigation_closed(row, ev)
          [] ev.type = "THEHIVE_CASE_CREATED" ->
                [row EXCEPT !.case = TRUE, !.status = "escalated",
                            !.phase = "escalation"]
          [] ev.type = "HUMAN_REVIEW_REQUESTED" ->
                [row EXCEPT !.phase = "human_review",
                            !.status = IF @ = "pending" THEN "in_progress" ELSE @]
          [] OTHER -> row0

PendingIds(reviews) == {i \in 1..Len(reviews) : reviews[i].status = "pending"}

\* a PendingReview row; oks counts the REST calls answered 200 for it, hdrs
\* the HUMAN_DECISION_RECEIVED events stored while it is the latest review,
\* and sets the assignments of workflow_resumed_at
NewReview == [status |-> "pending", resumed |-> FALSE, oks |-> 0, hdrs |-> 0,
              sets |-> 0]

\* _project_human_review_requested: insert a review unless one is pending
project_human_review_requested_always(reviews) == Append(reviews, NewReview)

project_human_review_requested(reviews) ==
    IF PendingIds(reviews) # {} THEN reviews ELSE Append(reviews, NewReview)

\* status a decision gives to the review
DecisionStatus(d) ==
    CASE d = "approve" -> "approved"
      [] d = "reject" -> "rejected"
      [] d = "more_info" -> "info_requested"
      [] OTHER -> d

\* _project_human_decision_received: update the pending review, if any
project_human_decision_received_any(reviews, ev) ==
    IF Len(reviews) = 0 THEN reviews
    ELSE [reviews EXCEPT ![Len(reviews)].status = DecisionStatus(ev.d)]

project_human_decision_received(reviews, ev) ==
    IF PendingIds(reviews) = {} THEN reviews
    ELSE LET i == CHOOSE j \in PendingIds(reviews) : TRUE
         IN  [reviews EXCEPT ![i].status = DecisionStatus(ev.d)]

\* Projector.project on the PendingReview rows
ProjectReviews(reviews, ev) ==
    CASE ev.type = "HUMAN_REVIEW_REQUESTED" ->
            project_human_review_requested(reviews)
      [] ev.type = "HUMAN_DECISION_RECEIVED" ->
            project_human_decision_received(reviews, ev)
      [] OTHER -> reviews

\* rebuilding the investigation row from get_events in version order
RECURSIVE Replay(_, _)
Replay(log, n) ==
    IF n = 0 THEN NoRow ELSE ProjectInv(Replay(log, n - 1), log[n])

(***************************************************************************)
(* The event emitter and the workflow graph: persistence/emitter.py,       *)
(* main.py, graph/builder.py, graph/hil.py, graph/close.py,                *)
(* supervisor/verdict.py, workers/thehive.py.                              *)
(* An emission is ProjectingEventStore.append: the event is appended and   *)
(* projected in one step, and is visible to the other sessions at once.    *)
(* Events that touch none of the modelled columns (supervisor decisions,   *)
(* enrichments, alerts) are left out of the log.                           *)
(***************************************************************************)
Db == [log |-> fLog, inv |-> fInv, reviews |-> fReviews]

\* bookkeeping of the decision events stored for the latest review
CountDecision(reviews, ev) ==
    IF ev.type = "HUMAN_DECISION_RECEIVED" /\ Len(reviews) > 0
    THEN [reviews EXCEPT ![Len(reviews)].hdrs = @ + 1]
    ELSE reviews

\* ProjectingEventStore.append
Emit(db, type, d, res, vd, case) ==
    LET ev == Event(Len(db.log) + 1, type, d, res, vd, case)
    IN  [log |-> Append(db.log, ev),
         inv |-> ProjectInv(db.inv, ev),
         reviews |-> CountDecision(ProjectReviews(db.reviews, ev), ev)]

EmitPlain(db, type) == Emit(db, type, "none", "none", "none", FALSE)

Room(n) == Len(fLog) + n <= MaxLog

Write(db) ==
    /\ fLog' = db.log
    /\ fInv' = db.inv
    /\ fReviews' = db.reviews

\* the row lock of SELECT ... FOR UPDATE on a review
LockHolders(rid) ==
    {u \in DOMAIN fCall : fCall[u].step = "locked" /\ fCall[u].rid = rid}

\* an UPDATE of the pending review waits for the end of a transaction that
\* holds the row lock
PendingUnlocked == \A i \in PendingIds(fReviews) : LockHolders(i) = {}

\* the run of the graph ends (END or interrupt): ainvoke returns, and the
\* resume loop sets workflow_resumed_at (main.py, lines 557-558)
EndRun(reviews) ==
    IF fResuming = 0 THEN reviews
    ELSE [reviews EXCEPT ![fResuming].resumed = TRUE, ![fResuming].sets = @ + 1]

\* _run_with_event_sourcing, lines 668-738: INVESTIGATION_CREATED and
\* INVESTIGATION_STARTED are appended and committed together, then the graph
\* is invoked
WfStart ==
    /\ fWf = "new"
    /\ Room(2)
    /\ Write(EmitPlain(EmitPlain(Db, "INVESTIGATION_CREATED"),
                       "INVESTIGATION_STARTED"))
    /\ fWf' = "supervisor"
    /\ UNCHANGED <<fMode, fState, fResuming, fCall>>

\* route_from_supervisor
route_from_supervisor(action) ==
    IF action = "INVESTIGATE" THEN "wazuh_worker"
    ELSE IF action = "ENRICH" THEN "cortex_worker"
    ELSE IF action = "CONTEXTUALIZE" THEN "misp_worker"
    ELSE IF action = "VERDICT" THEN "verdict"
    ELSE IF action = "CLOSE" THEN "close"
    ELSE "cortex_worker"

\* supervisor_node: the decision is the LLM's; the rounds through the
\* wazuh, cortex and misp workers, which come back to the supervisor and
\* touch none of the modelled rows, are left to SpecGraph
Supervisor(action) ==
    /\ fWf = "supervisor"
    /\ fWf' = route_from_supervisor(action)
    /\ UNCHANGED <<fMode, fState, fResuming, fLog, fInv, fReviews, fCall>>

\* route_from_verdict without the limit of the retries
route_from_verdict_unlimited(d, retries) ==
    IF d = "escalate" THEN "human_review"
    ELSE IF d = "close" THEN "close"
    ELSE IF d = "needs_more_info" THEN "supervisor"
    ELSE "human_review"

\* route_from_verdict
route_from_verdict(d, retries) ==
    IF d = "escalate" THEN "human_review"
    ELSE IF d = "close" THEN "close"
    ELSE IF d = "needs_more_info"
         THEN IF retries >= 2 THEN "human_review" ELSE "supervisor"
    ELSE "human_review"

\* verdict_node: VERDICT_RENDERED; needs_more_info counts a retry
Verdict(d) ==
    /\ fWf = "verdict"
    /\ Room(1)
    /\ Write(Emit(Db, "VERDICT_RENDERED", d, "none", "none", FALSE))
    /\ LET retries == IF d = "needs_more_info" /\ fState.retry < 2
                      THEN fState.retry + 1 ELSE fState.retry
       IN  /\ fState' = [fState EXCEPT !.verdict = d, !.retry = retries]
           /\ fWf' = route_from_verdict(d, retries)
    /\ UNCHANGED <<fMode, fResuming, fCall>>

\* human_review_node, lines 56-73: HUMAN_REVIEW_REQUESTED unless the flag of
\* the checkpointed state says it was emitted
RequestReview(db) ==
    IF fState.flag THEN db ELSE EmitPlain(db, "HUMAN_REVIEW_REQUESTED")

\* route_from_human_review
route_from_human_review(d) ==
    IF d = "approve" THEN "thehive"
    ELSE IF d = "reject" THEN "close"
    ELSE IF d = "more_info" THEN "supervisor"
    ELSE "close"

\* human_review_node up to the wait: the chat service is asked, or
\* interrupt() suspends the graph; state written by the node before the
\* interrupt is not checkpointed
HumanReviewEnter ==
    /\ fWf = "human_review"
    /\ fState.rounds < MaxRounds
    /\ Room(1)
    /\ LET db == RequestReview(Db)
       IN  IF fMode = "chat"
           THEN /\ Write(db)
                /\ fWf' = "hil_wait"
                /\ UNCHANGED fResuming
           ELSE /\ Write([db EXCEPT !.reviews = EndRun(@)])
                /\ fWf' = "interrupted"
                /\ fResuming' = 0
    /\ fState' = [fState EXCEPT !.rounds = @ + 1]
    /\ UNCHANGED <<fMode, fCall>>

\* SlackHILBackend._check_already_decided: scalar_one_or_none over the
\* investigation's reviews; several rows raise, which is caught
check_already_decided(reviews) ==
    IF Len(reviews) = 1 /\ reviews[1].status # "pending"
    THEN reviews[1].status ELSE "none"

\* human_feedback: a text in its parts, << >> for None
NoFeedback == << >>

\* HILResponse.feedback of a decision found on the dashboard
DashboardFeedback(status) == <<"Decision made via dashboard: ", status>>

\* _present_via_hil_service, lines 255-258: what HILTimeoutError is turned
\* into
TimeoutReturn_approve ==
    [decision |-> "approve",
     feedback |-> <<"HIL review timed out", " - please review manually">>]

TimeoutReturn ==
    [decision |-> "more_info",
     feedback |-> <<"HIL review timed out", " - please review manually">>]

\* human_review_node, lines 86-132 with a connected HIL service: the
\* decision event is emitted whatever backend answered
ChatReturn(decision, feedback) ==
    /\ Room(1)
    /\ PendingUnlocked
    /\ Write(Emit(Db, "HUMAN_DECISION_RECEIVED", decision, "none", "none", FALSE))
    /\ fState' = [fState EXCEPT !.hd = decision, !.flag = TRUE,
                                !.feedback = feedback]
    /\ fWf' = route_from_human_review(decision)
    /\ UNCHANGED <<fMode, fResuming, fCall>>

\* _handle_decision: a chat button is pressed
ChatButton(d) ==
    /\ fWf = "hil_wait"
    /\ LET already == check_already_decided(fReviews)
       IN  IF already # "none"
           THEN ChatReturn(IF already = "rejected" THEN "reject" ELSE "approve",
                           DashboardFeedback(already))
           ELSE ChatReturn(d, NoFeedback)

\* _wait_for_decision_with_polling: the poll finds the dashboard's decision
ChatPoll ==
    /\ fWf = "hil_wait"
    /\ LET status == check_already_decided(fReviews)
       IN  /\ status # "none"
           /\ ChatReturn(IF status = "approved" THEN "approve"
                          ELSE IF status = "rejected" THEN "reject"
                          ELSE "more_info",
                         DashboardFeedback(status))

\* SlackHILBackend.request_approval raises HILTimeoutError when
\* _wait_for_decision_with_polling runs out of time, and
\* _present_via_hil_service returns in its place
ChatTimeout ==
    /\ fWf = "hil_wait"
    /\ ChatReturn(TimeoutReturn.decision, TimeoutReturn.feedback)

\* reviews the resume loop selects: decided and not yet resumed
Resumable_all == {i \in 1..Len(fReviews) :
                    fReviews[i].status \in {"approved", "rejected", "info_requested"}}

Resumable == {i \in 1..Len(fReviews) :
                /\ fReviews[i].status \in {"approved", "rejected", "info_requested"}
                /\ ~fReviews[i].resumed}

ResumeDecision(status) ==
    CASE status = "approved" -> "approve"
      [] status = "rejected" -> "reject"
      [] status = "info_requested" -> "more_info"
      [] OTHER -> "more_info"

\* _resume_decided_reviews_once, lines 495-502, for one selected review: the
\* status of the investigation is read; paused is skipped, a cancelled,
\* closed or auto_closed one is marked without being resumed
ResumeLoopCheck(rid) ==
    /\ fResuming = 0
    /\ fChecked = 0
    /\ rid \in Resumable
    /\ fInv.status # "paused"
    /\ IF fInv.status \in {"cancelled", "closed", "auto_closed"}
       THEN /\ fReviews' = [fReviews EXCEPT ![rid].resumed = TRUE,
                                             ![rid].sets = @ + 1]
            /\ UNCHANGED fChecked
       ELSE /\ fChecked' = rid
            /\ UNCHANGED fReviews
    /\ UNCHANGED <<fMode, fWf, fState, fResuming, fLog, fInv, fCall>>

\* _resume_decided_reviews_once, lines 504-558: the snapshot is read and the
\* graph is resumed; raised says that ainvoke raises after the node's
\* emission (lines 548-555)
ResumeLoopInvoke(raised) ==
    /\ fChecked # 0
    /\ fChecked' = 0
    /\ IF fWf # "interrupted"
       THEN \* lines 521-523: no interrupt to resume
            /\ ~raised
            /\ fReviews' = [fReviews EXCEPT ![fChecked].resumed = TRUE,
                                             ![fChecked].sets = @ + 1]
            /\ UNCHANGED <<fWf, fState, fResuming, fLog, fInv>>
       ELSE \* lines 534-547: Command(resume=payload) re-executes the node
            \* from its top; source "dashboard" suppresses the decision event
            /\ Room(1)
            /\ Write(RequestReview(Db))
            /\ IF raised
               THEN UNCHANGED <<fWf, fState, fResuming>>
               ELSE /\ LET decision == ResumeDecision(fReviews[fChecked].status)
                       IN  /\ fState' = [fState EXCEPT !.hd = decision,
                                                        !.flag = TRUE,
                                                        !.feedback = NoFeedback]
                           /\ fWf' = route_from_human_review(decision)
                    /\ fResuming' = fChecked
    /\ UNCHANGED <<fMode, fCall>>

\* thehive_worker_node: THEHIVE_CASE_CREATED if the case was created
TheHive(created) ==
    /\ fWf = "thehive"
    /\ Room(1)
    /\ IF created
       THEN /\ Write(Emit(Db, "THEHIVE_CASE_CREATED", "none", "none", "none", TRUE))
            /\ fState' = [fState EXCEPT !.case = TRUE]
       ELSE UNCHANGED <<fLog, fInv, fReviews, fState>>
    /\ fWf' = "close"
    /\ UNCHANGED <<fMode, fResuming, fCall>>

\* the part that a free text adds to the reasons, none for None
TextPart(label, text) == IF text = NoText THEN << >> ELSE <<Part(label, text)>>

\* _determine_closure_reason; feedback is human_feedback, note the
\* recommendation of the verdict or the confidence_reasoning of the
\* supervisor. The confidence that the supervisor branch adds is a number.
determine_closure_reason(verdict, hd, feedback, note) ==
    IF hd = "reject"
    THEN <<Part(ReasonRejected, "")>> \o TextPart("Analyst feedback: ", feedback)
    ELSE IF hd = "approve" THEN <<Part(ReasonApproved, "")>>
    ELSE IF hd = "more_info"
    THEN <<Part(ReasonMoreInfo, "")>> \o TextPart("Analyst feedback: ", feedback)
    ELSE IF verdict = "close"
    THEN <<Part(ReasonAiClose, "")>> \o TextPart("AI recommendation: ", note)
    ELSE IF verdict = "escalate" THEN <<Part(ReasonEscalated, "")>>
    ELSE IF verdict = "none"
    THEN <<Part(ReasonSupervisor, "")>> \o TextPart("Reasoning: ", note)
    ELSE <<Part(ReasonDefault, "")>>

\* close_investigation_node: INVESTIGATION_CLOSED, then END
Close ==
    /\ fWf = "close"
    /\ Room(1)
    /\ LET db == Emit(Db, "INVESTIGATION_CLOSED", "none",
                      determine_closure_reason(fState.verdict, fState.hd,
                                               NoText, NoText),
                      fState.verdict, fState.case)
       IN  Write([db EXCEPT !.reviews = EndRun(@)])
    /\ fWf' = "end"
    /\ fResuming' = 0
    /\ UNCHANGED <<fMode, fState, fCall>>

(***************************************************************************)
(* REST endpoints: api/routes/investigations.py, api/routes/review.py      *)
(***************************************************************************)
RestUsers == {"u1", "u2"}
ReviewOps == {"approve", "reject", "more_info"}

IdleCall == [step |-> "idle", op |-> "none", rid |-> 0, seen |-> "none",
             resp |-> 0]

\* pause_investigation: 400 unless the status is pending or in_progress
Pause ==
    /\ fInv.status \in {"pending", "in_progress"}
    /\ Room(1)
    /\ Write(EmitPlain(Db, "INVESTIGATION_PAUSED"))
    /\ UNCHANGED <<fMode, fWf, fState, fResuming, fCall>>

\* resume_investigation: 400 unless the status is paused
Resume ==
    /\ fInv.status = "paused"
    /\ Room(1)
    /\ Write(EmitPlain(Db, "INVESTIGATION_RESUMED"))
    /\ UNCHANGED <<fMode, fWf, fState, fResuming, fCall>>

\* cancel_investigation: 404 without a row, 400 in a final status
Cancel ==
    /\ fInv # NoRow
    /\ fInv.status \notin {"cancelled", "closed", "auto_closed", "escalated",
                            "rejected"}
    /\ Room(1)
    /\ Write(EmitPlain(Db, "INVESTIGATION_CANCELLED"))
    /\ UNCHANGED <<fMode, fWf, fState, fResuming, fCall>>

\* SELECT ... FOR UPDATE waits while another transaction holds the row lock
LockFree_unlocked(u, rid) == TRUE

LockFree(u, rid) == LockHolders(rid) \ {u} = {}

\* approve_review / reject_review / request_more_info, the locking SELECT:
\* the handler holds the row and has read its status
ReviewBegin(u, op, rid) ==
    /\ fCall[u].step = "idle"
    /\ rid \in 1..Len(fReviews)
    /\ LockFree(u, rid)
    /\ fCall' = [fCall EXCEPT ![u] = [step |-> "locked", op |-> op, rid |-> rid,
                                       seen |-> fReviews[rid].status, resp |-> 0]]
    /\ UNCHANGED <<fMode, fWf, fState, fResuming, fLog, fInv, fReviews>>

\* approve_review, lines 330-340: the row is written directly
ApproveWrite(row) ==
    IF row = NoRow THEN row
    ELSE [row EXCEPT !.status = "in_progress", !.phase = "escalation",
                     !.vd = "escalate"]

\* what a handler that found the review pending appends and writes
ReviewEffect(op, db) ==
    IF op = "approve"
    THEN LET d1 == Emit(db, "HUMAN_DECISION_RECEIVED", "approve", "none", "none", FALSE)
         IN  [d1 EXCEPT !.inv = ApproveWrite(@)]
    ELSE IF op = "reject"
    THEN LET d1 == Emit(db, "HUMAN_DECISION_RECEIVED", "reject", "none", "none", FALSE)
         IN  Emit(d1, "INVESTIGATION_CLOSED", "none", <<Part(ReasonRest, "")>>,
                  "close", FALSE)
    ELSE Emit(db, "HUMAN_DECISION_RECEIVED", "more_info", "none", "none", FALSE)

\* the rest of the handler and the commit of its session: 409 if the review
\* was not pending, otherwise the decision is appended and projected
ReviewFinish(u) ==
    LET c == fCall[u]
    IN  /\ c.step = "locked"
        /\ IF c.seen # "pending"
           THEN /\ fCall' = [fCall EXCEPT ![u] = [IdleCall EXCEPT !.resp = 409]]
                /\ UNCHANGED <<fLog, fInv, fReviews>>
           ELSE /\ Room(2)
                /\ LET db == ReviewEffect(c.op, Db)
                   IN  Write([db EXCEPT !.reviews[c.rid].oks = @ + 1])
                /\ fCall' = [fCall EXCEPT ![u] = [IdleCall EXCEPT !.resp = 200]]
        /\ UNCHANGED <<fMode, fWf, fState, fResuming>>

(***************************************************************************)
(* The graph alone: graph/builder.py, supervisor/node.py,                  *)
(* supervisor/verdict.py. The nodes' counters iteration_count and          *)
(* verdict_retry_count and the routers, without the database.              *)
(***************************************************************************)
MAX_ITERATIONS == 10

\* next_action is a free string of the LLM's answer
SupervisorActions == {"INVESTIGATE", "ENRICH", "CONTEXTUALIZE", "VERDICT", "CLOSE",
                      "OTHER"}
VerdictDecisions == {"escalate", "close", "needs_more_info"}
HumanDecisions == {"approve", "reject", "more_info"}
WorkerNodes == {"wazuh_worker", "cortex_worker", "misp_worker"}

\* supervisor_node, line 54: the iteration limit forces the verdict
ForcedVerdict_never(iteration) == FALSE

ForcedVerdict(iteration) == iteration >= MAX_ITERATIONS

\* supervisor_node: llm is the decision of the LLM (or of the error path)
supervisor_node(llm) ==
    /\ gNode = "supervisor"
    /\ gIter < MaxIter
    /\ LET iteration == gIter + 1
           action == IF ForcedVerdict(iteration) THEN "VERDICT" ELSE llm
       IN  /\ gIter' = iteration
           /\ gAction' = action
           /\ gNode' = route_from_supervisor(action)
    /\ gSup' = gSup + 1
    /\ gSteps' = gSteps + 1
    /\ UNCHANGED <<gRetry, gNmi>>

\* wazuh_worker_node, cortex_worker_node, misp_worker_node: the edge back to
\* the supervisor
worker_node ==
    /\ gNode \in WorkerNodes
    /\ gNode' = "supervisor"
    /\ gSteps' = gSteps + 1
    /\ UNCHANGED <<gIter, gRetry, gAction, gSup, gNmi>>

\* verdict_node, lines 134-140 and 185: needs_more_info, from the LLM or from
\* the error path, increments verdict_retry_count before the router reads it
verdict_node(d) ==
    /\ gNode = "verdict"
    /\ d = "needs_more_info" => gRetry < MaxRetry
    /\ LET retries == IF d = "needs_more_info" THEN gRetry + 1 ELSE gRetry
       IN  /\ gRetry' = retries
           /\ gNode' = route_from_verdict(d, retries)
    /\ gNmi' = IF d = "needs_more_info" THEN gNmi + 1 ELSE gNmi
    /\ gSteps' = gSteps + 1
    /\ UNCHANGED <<gIter, gAction, gSup>>

\* human_review_node with the decision it was given
human_review_node(decision) ==
    /\ gNode = "human_review"
    /\ gNode' = route_from_human_review(decision)
    /\ gSteps' = 0
    /\ UNCHANGED <<gIter, gRetry, gAction, gSup, gNmi>>

\* thehive_worker_node: the edge to close_investigation
thehive_worker_node ==
    /\ gNode = "thehive"
    /\ gNode' = "close"
    /\ gSteps' = gSteps + 1
    /\ UNCHANGED <<gIter, gRetry, gAction, gSup, gNmi>>

\* close_investigation_node: the edge to END
close_investigation_node ==
    /\ gNode = "close"
    /\ gNode' = "end"
    /\ gSteps' = gSteps + 1
    /\ UNCHANGED <<gIter, gRetry, gAction, gSup, gNmi>>

\* the entry point of the graph with the initial state
GraphInit ==
    /\ gNode = "supervisor"
    /\ gIter = 0
    /\ gRetry = 0
    /\ gAction = "none"
    /\ gSup = 0
    /\ gNmi = 0
    /\ gSteps = 0

GraphSupervisor == \E llm \in SupervisorActions :
                      supervisor_node(llm) /\ UNCHANGED othersOfGraph
GraphWorker == worker_node /\ UNCHANGED othersOfGraph
GraphVerdict == \E d \in VerdictDecisions : verdict_node(d) /\ UNCHANGED othersOfGraph
GraphHumanReview == \E d \in HumanDecisions :
                       human_review_node(d) /\ UNCHANGED othersOfGraph
GraphTheHive == thehive_worker_node /\ UNCHANGED othersOfGraph
GraphClose == close_investigation_node /\ UNCHANGED othersOfGraph

NextGraph ==
    \/ GraphSupervisor
    \/ GraphWorker
    \/ GraphVerdict
    \/ GraphHumanReview
    \/ GraphTheHive
    \/ GraphClose

(***************************************************************************)
(* The investigation queue: polling/queue.py. The heap is the list that    *)
(* heapq.heappush and heapq.heappop maintain; PrioritizedInvestigation     *)
(* compares by priority alone, so its timestamp is left out.               *)
(***************************************************************************)
TITLE_BLOCK_MINUTES == 10

\* minutes between two readings of the clock
ClockStep == 5

Severities == {"critical", "high", "medium", "low"}

\* the investigations offered to the queue: id, title and max_severity
Pool ==
    [i1 |-> [title |-> "t1", sev |-> "low"],
     i2 |-> [title |-> "t1", sev |-> "critical"],
     i3 |-> [title |-> "t2", sev |-> "high"],
     i4 |-> [title |-> "t3", sev |-> "medium"],
     i5 |-> [title |-> "t4", sev |-> "high"]]

InvIds == DOMAIN Pool
Titles == {Pool[i].title : i \in InvIds}

\* _severity_to_priority
severity_to_priority_flat(sev) == 0

severity_to_priority(sev) ==
    CASE sev = "critical" -> 0
      [] sev = "high" -> 1
      [] sev = "medium" -> 2
      [] sev = "low" -> 3
      [] OTHER -> 4

\* heapq._siftdown(heap, startpos, pos) with newitem = heap[pos]; positions
\* count from 0 as in the list
RECURSIVE siftdown(_, _, _, _)
siftdown(h, startpos, pos, newitem) ==
    IF pos > startpos
    THEN LET parentpos == (pos - 1) \div 2
             parent == h[parentpos + 1]
         IN  IF newitem.priority < parent.priority
             THEN siftdown([h EXCEPT ![pos + 1] = parent], startpos, parentpos,
                           newitem)
             ELSE [h EXCEPT ![pos + 1] = newitem]
    ELSE [h EXCEPT ![pos + 1] = newitem]

\* heapq._siftup(heap, pos): the smaller child is moved up until a leaf is
\* reached, then newitem is sifted down from there
RECURSIVE siftup(_, _, _, _)
siftup(h, startpos, pos, newitem) ==
    LET endpos == Len(h)
        childpos == 2 * pos + 1
        rightpos == childpos + 1
    IN  IF childpos < endpos
        THEN LET c == IF rightpos < endpos
                         /\ ~(h[childpos + 1].priority < h[rightpos + 1].priority)
                      THEN rightpos ELSE childpos
             IN  siftup([h EXCEPT ![pos + 1] = h[c + 1]], startpos, c, newitem)
        ELSE siftdown([h EXCEPT ![pos + 1] = newitem], startpos, pos, newitem)

\* heapq.heappush
heappush(h, item) == siftdown(Append(h, item), 0, Len(h), item)

\* heapq.heappop: the item returned and the list left
heappop(h) ==
    LET lastelt == h[Len(h)]
        rest == SubSeq(h, 1, Len(h) - 1)
    IN  IF rest # << >>
        THEN [item |-> rest[1], heap |-> siftup(rest, 0, 0, lastelt)]
        ELSE [item |-> lastelt, heap |-> << >>]

\* add, lines 91-101: the title is blocked while now < block_until
TitleBlocked_never(block, title, now) == FALSE

TitleBlocked(block, title, now) == block[title] # 0 /\ now < block[title]

NoCall == [op |-> "none", id |-> "none", ok |-> FALSE]

\* InvestigationQueue.add
QueueAdd(id) ==
    LET inv == Pool[id]
    IN  /\ IF \/ id \in qSeen
              \/ TitleBlocked(qBlock, inv.title, qNow)
              \/ Len(qHeap) >= MaxSize
           THEN /\ qRes' = [op |-> "add", id |-> id, ok |-> FALSE]
                /\ UNCHANGED <<qHeap, qSeen, qBlock, qAccepted>>
           ELSE /\ qHeap' = heappush(qHeap, [priority |-> severity_to_priority(inv.sev),
                                             id |-> id])
                /\ qSeen' = qSeen \cup {id}
                /\ qBlock' = [qBlock EXCEPT ![inv.title] = qNow + TITLE_BLOCK_MINUTES]
                /\ qRes' = [op |-> "add", id |-> id, ok |-> TRUE]
                /\ qAccepted' = qAccepted \cup
                                   {[id |-> id, title |-> inv.title, at |-> qNow]}
        /\ UNCHANGED qNow

\* InvestigationQueue.get: the item of heappop, or None at the timeout of an
\* empty queue
QueueGet ==
    /\ IF qHeap = << >>
       THEN /\ qRes' = [op |-> "get", id |-> "none", ok |-> FALSE]
            /\ UNCHANGED qHeap
       ELSE LET r == heappop(qHeap)
            IN  /\ qHeap' = r.heap
                /\ qRes' = [op |-> "get", id |-> r.item.id, ok |-> TRUE]
    /\ UNCHANGED <<qSeen, qBlock, qNow, qAccepted>>

\* time passes between two calls
QueueTick ==
    /\ qNow + ClockStep <= MaxTime
    /\ qNow' = qNow + ClockStep
    /\ qRes' = NoCall
    /\ UNCHANGED <<qHeap, qSeen, qBlock, qAccepted>>

\* InvestigationQueue.__init__
QueueInit ==
    /\ qHeap = << >>
    /\ qSeen = {}
    /\ qBlock = [t \in Titles |-> 0]
    /\ qNow = 0
    /\ qRes = NoCall
    /\ qAccepted = {}

QueueAddCall == \E id \in InvIds : QueueAdd(id) /\ UNCHANGED othersOfQueue
QueueGetCall == QueueGet /\ UNCHANGED othersOfQueue
QueueClock == QueueTick /\ UNCHANGED othersOfQueue

NextQueue ==
    \/ QueueAddCall
    \/ QueueGetCall
    \/ QueueClock

(***************************************************************************)
(* The alert poller: polling/poller.py                                     *)
(***************************************************************************)
\* the alerts the SIEM holds: id and severity
AlertPool == [a1 |-> "low", a2 |-> "critical", a3 |-> "medium", a4 |-> "critical"]

AlertIds == DOMAIN AlertPool

\* what one call of poll_wazuh_alerts can return: any alerts in any order,
\* an alert possibly more than once
FetchResults == UNION {[1..n -> AlertIds] : n \in 0..MaxFetch}

\* _fetch_alerts, line 100
IsNew_always(seen, id) == TRUE

IsNew(seen, id) == id \notin seen

\* _fetch_alerts, lines 97-102: the alerts not seen yet, in the order of the
\* result, each added to the seen ids as it is met
RECURSIVE FilterNew(_, _, _)
FilterNew(all, seen, k) ==
    IF k > Len(all) THEN [new |-> << >>, seen |-> seen]
    ELSE IF IsNew(seen, all[k])
         THEN LET r == FilterNew(all, seen \cup {all[k]}, k + 1)
              IN  [new |-> <<all[k]>> \o r.new, seen |-> r.seen]
         ELSE FilterNew(all, seen, k + 1)

\* _fetch_alerts, line 105: severity_order of the sort key
severity_order(sev) ==
    CASE sev = "critical" -> 0
      [] sev = "high" -> 1
      [] sev = "medium" -> 2
      [] sev = "low" -> 3
      [] OTHER -> 4

\* list.sort is stable: x goes behind the elements whose key is not greater
RECURSIVE InsertSorted(_, _)
InsertSorted(sorted, x) ==
    IF sorted = << >> THEN <<x>>
    ELSE IF severity_order(AlertPool[x]) < severity_order(AlertPool[Head(sorted)])
         THEN <<x>> \o sorted
         ELSE <<Head(sorted)>> \o InsertSorted(Tail(sorted), x)

RECURSIVE SortBySeverity(_, _)
SortBySeverity(s, n) ==
    IF n = 0 THEN << >> ELSE InsertSorted(SortBySeverity(s, n - 1), s[n])

Min(a, b) == IF a < b THEN a ELSE b

\* AlertPoller.poll, with the result of poll_wazuh_alerts should the buffer be
\* empty; a fetch that raised leaves the seen ids and the buffer as they were
Poll(fetched, raised) ==
    LET fetch == pBuffer = << >> /\ ~raised
        f == FilterNew(fetched, pSeen, 1)
        buffer == IF fetch THEN SortBySeverity(f.new, Len(f.new)) ELSE pBuffer
        n == Min(BatchSize, Len(buffer))
        batch == SubSeq(buffer, 1, n)
        ids == {batch[k] : k \in 1..n}
    IN  /\ pSeen' = IF fetch THEN f.seen ELSE pSeen
        /\ pBuffer' = SubSeq(buffer, n + 1, Len(buffer))
        /\ pBatch' = batch
        /\ pCount' = [id \in AlertIds |->
                         IF id \in ids /\ pCount[id] < 2
                         THEN pCount[id] + 1 ELSE pCount[id]]
        /\ pRefetched' = IF fetch
                         THEN pRefetched \cup
                                  ({fetched[k] : k \in 1..Len(fetched)} \cap pSeen)
                         ELSE pRefetched

\* AlertPoller.__init__
PollerInit ==
    /\ pSeen = {}
    /\ pBuffer = << >>
    /\ pBatch = << >>
    /\ pCount = [id \in AlertIds |-> 0]
    /\ pRefetched = {}

PollerPoll ==
    \E fetched \in FetchResults : Poll(fetched, FALSE) /\ UNCHANGED othersOfPoller

PollerPollFetchFails ==
    pBuffer = << >> /\ Poll(<< >>, TRUE) /\ UNCHANGED othersOfPoller

NextPoller == PollerPoll \/ PollerPollFetchFails

(***************************************************************************)
(* The alert correlator: polling/correlator.py                             *)
(***************************************************************************)
\* PollingConfig.correlation_window_minutes
correlation_window_minutes == 15

\* the minutes at which an alert of the batch was raised
Timestamps == {0, 10, 20}

\* an alert without its id: key 0 is an alert for which _get_correlation_keys
\* returns no key, key n > 0 one whose first correlation key is the n-th
AlertShapes == [key : 0..NumKeys, timestamp : Timestamps, severity : {"low", "critical"}]

\* a batch of alerts of these shapes: alert ids are distinct, the id is the
\* place in the batch
AlertBatch(f) ==
    [k \in 1..Len(f) |-> [id |-> k, key |-> f[k].key,
                           timestamp |-> f[k].timestamp,
                           severity |-> f[k].severity]]

\* correlate, lines 54-61: the group an alert goes to
GroupKey(alert) ==
    IF alert.key # 0 THEN [kind |-> "key", n |-> alert.key]
    ELSE [kind |-> "standalone", n |-> alert.id]

\* the keys of the dict groups, in the order of their insertion
RECURSIVE GroupKeys(_, _)
GroupKeys(alerts, n) ==
    IF n = 0 THEN << >>
    ELSE LET before == GroupKeys(alerts, n - 1)
             gk == GroupKey(alerts[n])
         IN  IF \E k \in 1..Len(before) : before[k] = gk
             THEN before ELSE Append(before, gk)

GroupAlerts(alerts, gk) == SelectSeq(alerts, LAMBDA a : GroupKey(a) = gk)

RECURSIVE MaxTimestamp(_)
MaxTimestamp(alerts) ==
    IF Len(alerts) = 1 THEN alerts[1].timestamp
    ELSE LET t == MaxTimestamp(Tail(alerts))
         IN  IF alerts[1].timestamp >= t THEN alerts[1].timestamp ELSE t

\* _filter_by_time_window
filter_by_time_window(alerts) ==
    IF alerts = << >> THEN << >>
    ELSE LET cutoff == MaxTimestamp(alerts) - correlation_window_minutes
         IN  SelectSeq(alerts, LAMBDA a : a.timestamp >= cutoff)

\* _merge_overlapping_groups: the groups from the k-th on, seen the alert ids
\* of the groups before
RECURSIVE merge_overlapping_groups(_, _, _, _)
merge_overlapping_groups(alerts, keys, k, seen) ==
    IF k > Len(keys) THEN << >>
    ELSE LET group == GroupAlerts(alerts, keys[k])
             unique == SelectSeq(group, LAMBDA a : a.id \notin seen)
             kept == filter_by_time_window(unique)
             rest == merge_overlapping_groups(alerts, keys, k + 1,
                         seen \cup {unique[i].id : i \in 1..Len(unique)})
         IN  IF kept # << >> THEN <<kept>> \o rest ELSE rest

\* Investigation.max_severity: severity_order of the property
investigation_severity_order(sev) ==
    CASE sev = "low" -> 0
      [] sev = "medium" -> 1
      [] sev = "high" -> 2
      [] sev = "critical" -> 3
      [] OTHER -> 0

\* Investigation.max_severity: max() returns the first alert of the highest
\* severity, and an investigation without alerts is LOW
max_severity(alerts) ==
    IF alerts = << >> THEN "low"
    ELSE LET top == CHOOSE k \in 1..Len(alerts) :
                        \A j \in 1..Len(alerts) :
                            \/ investigation_severity_order(alerts[j].severity)
                                   < investigation_severity_order(alerts[k].severity)
                            \/ /\ investigation_severity_order(alerts[j].severity)
                                      = investigation_severity_order(alerts[k].severity)
                               /\ k <= j
         IN  alerts[top].severity

\* _create_investigation
create_investigation(alerts) ==
    [alerts |-> alerts, max_severity |-> max_severity(alerts)]

\* the sort of correlate, lines 74-77, which is stable
RECURSIVE InsertInvestigation(_, _)
InsertInvestigation(sorted, inv) ==
    IF sorted = << >> THEN <<inv>>
    ELSE IF severity_order(inv.max_severity) < severity_order(Head(sorted).max_severity)
         THEN <<inv>> \o sorted
         ELSE <<Head(sorted)>> \o InsertInvestigation(Tail(sorted), inv)

RECURSIVE SortInvestigations(_, _)
SortInvestigations(s, n) ==
    IF n = 0 THEN << >>
    ELSE InsertInvestigation(SortInvestigations(s, n - 1), s[n])

\* AlertCorrelator.correlate
correlate(alerts) ==
    IF alerts = << >> THEN << >>
    ELSE LET merged == merge_overlapping_groups(alerts,
                           GroupKeys(alerts, Len(alerts)), 1, {})
             investigations == [k \in 1..Len(merged) |-> create_investigation(merged[k])]
         IN  SortInvestigations(investigations, Len(investigations))

\* the call of correlate on the batch
Correlate ==
    /\ ~cDone
    /\ cDone' = TRUE
    /\ cResult' = correlate(cAlerts)
    /\ UNCHANGED cAlerts

\* no batch is being correlated
CorrelatorQuiet ==
    /\ cAlerts = << >>
    /\ cDone = FALSE
    /\ cResult = << >>

CorrelatorInit ==
    /\ \E n \in 0..MaxAlerts : \E f \in [1..n -> AlertShapes] : cAlerts = AlertBatch(f)
    /\ cDone = FALSE
    /\ cResult = << >>

CorrelatorCorrelate == Correlate /\ UNCHANGED othersOfCorrelator

NextCorrelator == CorrelatorCorrelate

(***************************************************************************)
(* The event tailer and the event bus: api/app.py, api/event_bus.py        *)
(***************************************************************************)
BusEventIds == 1..MaxBusEvents

Subscribers == {"b1", "b2"}

\* the tailer queries from one second before last_timestamp
OverlapSeconds == 1

\* the first query of a tailer without last_timestamp reaches back a minute
FirstRunSeconds == 60

\* asyncio.Queue.put_nowait with the queue evicting its oldest event
put_nowait_evict(queue, ev) ==
    IF Len(queue) >= MaxBusQueue THEN Append(Tail(queue), ev) ELSE Append(queue, ev)

\* asyncio.Queue.put_nowait as publish uses it: QueueFull leaves the queue
put_nowait(queue, ev) ==
    IF Len(queue) >= MaxBusQueue THEN queue ELSE Append(queue, ev)

\* EventBus.publish of one event to the subscribers
publish(queues, subs, ev) ==
    [s \in Subscribers |-> IF s \in subs THEN put_nowait(queues[s], ev) ELSE queues[s]]

\* asyncio.Queue.put_nowait on a queue of the given maxsize, the new event
\* put before the waiting ones
queue_put_front(queue, ev, maxsize) ==
    IF Len(queue) >= maxsize THEN queue ELSE <<ev>> \o queue

\* asyncio.Queue.put_nowait on a queue of the given maxsize
queue_put(queue, ev, maxsize) ==
    IF Len(queue) >= maxsize THEN queue ELSE Append(queue, ev)

\* the loop of the tailer over the events of its query, from the k-th on
RECURSIVE Broadcast(_, _, _)
Broadcast(events, k, st) ==
    IF k > Len(events) THEN st
    ELSE IF events[k] \in st.seen THEN Broadcast(events, k + 1, st)
    ELSE LET ev == events[k]
             queues == publish(st.queues, bSubs, ev)
         IN  Broadcast(events, k + 1,
                 [queues |-> queues,
                  seen |-> st.seen \cup {ev},
                  last |-> eTs[ev],
                  published |-> Append(st.published, ev),
                  log |-> Append(st.log,
                      [ev |-> ev, subs |-> bSubs,
                       lens |-> [s \in Subscribers |-> Len(st.queues[s])],
                       put |-> {s \in Subscribers : queues[s] # st.queues[s]}])])

\* .limit(100) of the queries of the tailer
TailerLimit == 100

\* the events of the query of the tailer
TailerQuery ==
    IF tLast # 0 THEN {e \in eDb : eTs[e] >= tLast - OverlapSeconds}
    ELSE {e \in eDb : eTs[e] > eNow - FirstRunSeconds}

\* ORDER BY timestamp: any order of the rows that does not decrease
OrderedByTimestamp(rows) ==
    {f \in [1..Cardinality(rows) -> rows] :
        \A i, j \in 1..Cardinality(rows) :
            i < j => f[i] # f[j] /\ eTs[f[i]] <= eTs[f[j]]}

\* a transaction writes an event: Event.timestamp is the time of creation
EventWrite(e) ==
    /\ eTs[e] = 0
    /\ \A d \in BusEventIds : d < e => eTs[d] # 0
    /\ eTs' = [eTs EXCEPT ![e] = eNow]
    /\ eOpen' = eOpen \cup {e}
    /\ UNCHANGED <<eNow, eDb, tStarted, tLast, tSeen, tPublished, bSubs, bQueue, bLog>>

\* the transaction of an event commits
EventCommit(e) ==
    /\ e \in eOpen
    /\ eOpen' = eOpen \ {e}
    /\ eDb' = eDb \cup {e}
    /\ UNCHANGED <<eNow, eTs, tStarted, tLast, tSeen, tPublished, bSubs, bQueue, bLog>>

SseTick ==
    /\ eNow < MaxBusClock
    /\ eNow' = eNow + 1
    /\ UNCHANGED <<eTs, eOpen, eDb, tStarted, tLast, tSeen, tPublished, bSubs, bQueue, bLog>>

\* poll_events_from_database, lines 52-64: the latest committed event
TailerStart ==
    /\ ~tStarted
    /\ tStarted' = TRUE
    /\ IF eDb = {} THEN UNCHANGED <<tLast, tSeen>>
       ELSE \E latest \in eDb :
                /\ \A e \in eDb : eTs[e] <= eTs[latest]
                /\ tLast' = eTs[latest]
                /\ tSeen' = {latest}
    /\ UNCHANGED <<eNow, eTs, eOpen, eDb, tPublished, bSubs, bQueue, bLog>>

\* poll_events_from_database, one turn of the loop
TailerPoll ==
    /\ tStarted
    /\ \E rows \in OrderedByTimestamp(TailerQuery) :
           LET events == SubSeq(rows, 1, Min(Len(rows), TailerLimit))
               st == Broadcast(events, 1,
                         [queues |-> bQueue, seen |-> tSeen, last |-> tLast,
                          published |-> tPublished, log |-> << >>])
           IN  /\ bQueue' = st.queues
               /\ tSeen' = st.seen
               /\ tLast' = st.last
               /\ tPublished' = st.published
               /\ bLog' = st.log
    /\ UNCHANGED <<eNow, eTs, eOpen, eDb, tStarted, bSubs>>

\* EventBus.subscription, entering
Subscribe(s) ==
    /\ s \notin bSubs
    /\ bSubs' = bSubs \cup {s}
    /\ bQueue' = [bQueue EXCEPT ![s] = << >>]
    /\ UNCHANGED <<eNow, eTs, eOpen, eDb, tStarted, tLast, tSeen, tPublished, bLog>>

\* EventBus.subscription, leaving
Unsubscribe(s) ==
    /\ s \in bSubs
    /\ bSubs' = bSubs \ {s}
    /\ UNCHANGED <<eNow, eTs, eOpen, eDb, tStarted, tLast, tSeen, tPublished, bQueue, bLog>>

\* event_generator: queue.get
QueueRead(s) ==
    /\ s \in bSubs
    /\ bQueue[s] # << >>
    /\ bQueue' = [bQueue EXCEPT ![s] = Tail(@)]
    /\ UNCHANGED <<eNow, eTs, eOpen, eDb, tStarted, tLast, tSeen, tPublished, bSubs, bLog>>

SseState(now) ==
    /\ eNow = now
    /\ eTs = [e \in BusEventIds |-> 0]
    /\ eOpen = {}
    /\ eDb = {}
    /\ tStarted = FALSE
    /\ tLast = 0
    /\ tSeen = {}
    /\ tPublished = << >>
    /\ bSubs = {}
    /\ bQueue = [s \in Subscribers |-> << >>]
    /\ bLog = << >>

\* no event, no tailer, no subscriber
SseQuiet == SseState(0)

SseInit == SseState(1)

SseEventWrite == \E e \in BusEventIds : EventWrite(e) /\ UNCHANGED othersOfSse
SseEventCommit == \E e \in BusEventIds : EventCommit(e) /\ UNCHANGED othersOfSse
SseClock == SseTick /\ UNCHANGED othersOfSse
SseTailerStart == TailerStart /\ UNCHANGED othersOfSse
SseTailerPoll == TailerPoll /\ UNCHANGED othersOfSse
SseSubscribe == \E s \in Subscribers : Subscribe(s) /\ UNCHANGED othersOfSse
SseUnsubscribe == \E s \in Subscribers : Unsubscribe(s) /\ UNCHANGED othersOfSse
SseQueueRead == \E s \in Subscribers : QueueRead(s) /\ UNCHANGED othersOfSse

NextSse ==
    \/ SseEventWrite
    \/ SseEventCommit
    \/ SseClock
    \/ SseTailerStart
    \/ SseTailerPoll
    \/ SseSubscribe
    \/ SseUnsubscribe
    \/ SseQueueRead

(***************************************************************************)
(* max_severity of the read model: persistence/projector.py, main.py       *)
(***************************************************************************)
\* Projector._compare_severity with its result negated
compare_severity_reversed(s1, s2) ==
    LET order(s) == CASE s = "low" -> 1 [] s = "medium" -> 2 [] s = "high" -> 3
                      [] s = "critical" -> 4 [] OTHER -> 0
    IN  IF order(s1) < order(s2) THEN 1 ELSE IF order(s1) > order(s2) THEN -1 ELSE 0

\* Projector._compare_severity
compare_severity(s1, s2) ==
    LET order(s) == CASE s = "low" -> 1 [] s = "medium" -> 2 [] s = "high" -> 3
                      [] s = "critical" -> 4 [] OTHER -> 0
    IN  IF order(s1) < order(s2) THEN -1 ELSE IF order(s1) > order(s2) THEN 1 ELSE 0

\* _project_investigation_created, lines 183-185
project_created_max_severity(row_max, ev_max) == ev_max

\* _project_alert_correlated, lines 234-240
project_alert_max_severity(row_max, severity) ==
    IF row_max = "none" THEN severity
    ELSE IF compare_severity(severity, row_max) > 0 THEN severity
    ELSE row_max

\* _run_with_event_sourcing, lines 699-705: INVESTIGATION_CREATED with the
\* max_severity of the investigation
EmitInvestigationCreated ==
    /\ mPos = 0
    /\ mPos' = 1
    /\ mMax' = project_created_max_severity(mMax, max_severity(mAlerts))
    /\ UNCHANGED mAlerts

\* _run_with_event_sourcing, lines 713-722: ALERT_CORRELATED of the next alert
EmitAlertCorrelated ==
    /\ mPos >= 1
    /\ mPos <= Len(mAlerts)
    /\ mPos' = mPos + 1
    /\ mMax' = project_alert_max_severity(mMax, mAlerts[mPos].severity)
    /\ UNCHANGED mAlerts

\* no investigation is run
SeverityQuiet ==
    /\ mAlerts = << >>
    /\ mPos = 0
    /\ mMax = "none"

\* an investigation of the correlator: at least one alert
SeverityInit ==
    /\ \E n \in 1..MaxInvAlerts :
           \E f \in [1..n -> Severities] :
               mAlerts = [k \in 1..n |-> [severity |-> f[k]]]
    /\ mPos = 0
    /\ mMax = "none"

SeverityCreated == EmitInvestigationCreated /\ UNCHANGED othersOfSeverity
SeverityAlert == EmitAlertCorrelated /\ UNCHANGED othersOfSeverity

NextSeverity == SeverityCreated \/ SeverityAlert

(***************************************************************************)
(* The status of a closed investigation: graph/close.py, projector.py      *)
(***************************************************************************)
\* the states in which the close node is entered: a human decision comes
\* after a verdict and brings the feedback, the case is created after an
\* approval, and the note is the recommendation of the verdict or, without
\* a verdict, the reasoning of the supervisor
ClosureInputs ==
    {i \in [verdict : {"none", "close", "escalate", "needs_more_info"},
            hd : {"none", "approve", "reject", "more_info"},
            feedback : FreeTexts, note : FreeTexts, case : BOOLEAN] :
        /\ i.hd # "none" => i.verdict # "none"
        /\ i.hd = "none" => i.feedback = NoText
        /\ i.case => i.hd = "approve"}

\* the row before the close: the case id was projected with
\* THEHIVE_CASE_CREATED, the verdict with VERDICT_RENDERED
RowBeforeClose(i) ==
    [status |-> IF i.case THEN "escalated" ELSE "in_progress",
     phase |-> IF i.case THEN "escalation" ELSE "verdict",
     vd |-> i.verdict, case |-> i.case, closed_at |-> 0]

\* close_investigation_node: INVESTIGATION_CLOSED with the closure reason
CloseNodeEmit ==
    /\ ~kDone
    /\ LET ev == Event(1, "INVESTIGATION_CLOSED", "none",
                       determine_closure_reason(kIn.verdict, kIn.hd,
                                                kIn.feedback, kIn.note),
                       kIn.verdict, kIn.case)
       IN  /\ kEv' = ev
           /\ kRow' = ProjectInv(kRow, ev)
    /\ kDone' = TRUE
    /\ UNCHANGED kIn

NoEvent == Event(0, "none", "none", << >>, "none", FALSE)

\* no investigation is closed
ClosureQuiet ==
    /\ kIn = [verdict |-> "none", hd |-> "none", feedback |-> NoText,
              note |-> NoText, case |-> FALSE]
    /\ kDone = FALSE
    /\ kEv = NoEvent
    /\ kRow = NoRow

ClosureInit ==
    /\ kIn \in ClosureInputs
    /\ kDone = FALSE
    /\ kEv = NoEvent
    /\ kRow = RowBeforeClose(kIn)

ClosureClose == CloseNodeEmit /\ UNCHANGED othersOfClosure

NextClosure == ClosureClose

(***************************************************************************)
(* The resume loop over the decided reviews: main.py                       *)
(***************************************************************************)
\* the reviews, numbered in the order of responded_at
ReviewIds == 1..NumReviews

\* .limit(10) of the query of _resume_decided_reviews_once
ResumeQueryLimit == 10

\* what the loop finds for a review:
\*   "interrupted" the investigation is neither paused nor terminal and the
\*                 checkpoint holds a human-review interrupt: resumed, marked;
\*   "terminal"    the investigation is cancelled, closed or auto_closed, or
\*                 the checkpoint holds no interrupt: marked without a resume;
\*   "skipped"     the investigation is paused, aget_state or ainvoke raises,
\*                 or the interrupt is of another type: continue, not marked
ReviewKinds == {"interrupted", "terminal", "skipped"}

\* the rows of the query: decided, workflow_resumed_at IS NULL, the first
\* ResumeQueryLimit by responded_at
ResumeQuery(marked) ==
    {r \in ReviewIds \ marked :
        Cardinality({q \in ReviewIds \ marked : q < r}) < ResumeQueryLimit}

\* _resume_decided_reviews_once: one turn of _resume_loop
ResumeDecidedReviewsOnce ==
    LET reviews == ResumeQuery(rMarked)
    IN  /\ reviews # {}
        /\ rResumed' = rResumed \cup {r \in reviews : rKind[r] = "interrupted"}
        /\ rMarked' = rMarked \cup {r \in reviews : rKind[r] # "skipped"}
        /\ UNCHANGED rKind

\* no decided review
ResumeQuiet ==
    /\ rKind = [r \in ReviewIds |-> "terminal"]
    /\ rMarked = ReviewIds
    /\ rResumed = {}

\* every review is decided and none has been reached by the loop
ResumeInit ==
    /\ rKind \in [ReviewIds -> ReviewKinds]
    /\ rMarked = {}
    /\ rResumed = {}

ResumeTurn == ResumeDecidedReviewsOnce /\ UNCHANGED othersOfResume

NextResume == ResumeTurn

(***************************************************************************)
(* Appends with an idempotency key through the projecting store:           *)
(* persistence/projector.py, persistence/store.py, main.py                 *)
(***************************************************************************)
\* the emissions of the program that carry an idempotency key and are
\* projected: the head of _run_with_event_sourcing ("inv-created-{id}",
\* "inv-started-{id}") and the TheHive worker ("thehive-case-{id}-{case}")
KeyedEmissions ==
    {[type |-> "INVESTIGATION_CREATED", key |-> "inv-created", d |-> "none", case |-> FALSE],
     [type |-> "INVESTIGATION_STARTED", key |-> "inv-started", d |-> "none", case |-> FALSE],
     [type |-> "THEHIVE_CASE_CREATED", key |-> "thehive-case", d |-> "none", case |-> TRUE]}

\* emissions without a key that move the row between the keyed ones
PlainEmissions ==
    {[type |-> "VERDICT_RENDERED", key |-> NoKey, d |-> "escalate", case |-> FALSE],
     [type |-> "HUMAN_REVIEW_REQUESTED", key |-> NoKey, d |-> "none", case |-> FALSE],
     [type |-> "HUMAN_DECISION_RECEIVED", key |-> NoKey, d |-> "approve", case |-> FALSE]}

\* EventStore._get_by_idempotency_key on the events of the investigation:
\* the position of the stored event, 0 for None
StoredAt(log, key) ==
    IF \E i \in 1..Len(log) : log[i].key = key
    THEN CHOOSE i \in 1..Len(log) : log[i].key = key
    ELSE 0

\* EventStore.append without expected_version: the stored event of the key
\* is returned, or the event is added
EventStoreAppend(log, e) ==
    LET at == IF e.key = NoKey THEN 0 ELSE StoredAt(log, e.key)
        ev == Event(Len(log) + 1, e.type, e.d, << >>, "none", e.case)
    IN  IF at # 0
        THEN [log |-> log, ev |-> log[at].ev, hit |-> TRUE]
        ELSE [log |-> Append(log, [ev |-> ev, key |-> e.key]), ev |-> ev,
              hit |-> FALSE]

\* the counters of MetricsHourly that the keyed events increment
project_metrics(metrics, ev) ==
    CASE ev.type = "INVESTIGATION_CREATED" ->
            [metrics EXCEPT !.investigations_created = @ + 1]
      [] ev.type = "THEHIVE_CASE_CREATED" ->
            [metrics EXCEPT !.escalations = @ + 1]
      [] OTHER -> metrics

\* ProjectingEventStore.append: the event that EventStore.append returns is
\* projected
ProjectingAppend(e) ==
    /\ yCall.n < MaxAppends
    /\ yLog = << >> => e.type = "INVESTIGATION_CREATED"
    /\ LET r == EventStoreAppend(yLog, e)
       IN  /\ yLog' = r.log
           /\ yInv' = ProjectInv(yInv, r.ev)
           /\ yReviews' = ProjectReviews(yReviews, r.ev)
           /\ yMetrics' = project_metrics(yMetrics, r.ev)
           /\ yCall' = [n |-> yCall.n + 1, hit |-> r.hit]

\* nothing has been appended
ReplayQuiet ==
    /\ yLog = << >>
    /\ yInv = NoRow
    /\ yReviews = << >>
    /\ yMetrics = [investigations_created |-> 0, escalations |-> 0]
    /\ yCall = [n |-> 0, hit |-> FALSE]

ReplayInit == ReplayQuiet

ReplayKeyed == \E e \in KeyedEmissions : ProjectingAppend(e) /\ UNCHANGED othersOfReplay
ReplayPlain == \E e \in PlainEmissions : ProjectingAppend(e) /\ UNCHANGED othersOfReplay

NextReplay == ReplayKeyed \/ ReplayPlain

(***************************************************************************)
(* A consumer blocked in get while add runs: polling/queue.py, main.py     *)
(* The program has one consumer, _main_loop, and one producer at a time,   *)
(* _on_alerts_received.  Both are tasks of one event loop: a task runs     *)
(* until it awaits something that is not ready.  The Condition _not_empty  *)
(* has a lock of its own; _lock is never held across a suspension.         *)
(***************************************************************************)
\* Condition.notify(): the waiter's future is resolved, so its timer can no
\* longer expire it; without a waiter nothing happens
notify_lost(cons) == cons

notify(cons) == IF cons = "waiting" THEN "notified" ELSE cons

\* the lock of _not_empty is held by the consumer from `async with` until
\* Condition.wait() releases it (wait_for may run wait() as a task of its
\* own, which starts one turn of the loop later)
ConditionLocked == wCons = "entering"

\* InvestigationQueue.add by the producer: the checks and the push under
\* _lock, then notify under _not_empty; when the consumer holds the lock of
\* _not_empty the producer is suspended before the notify
WaitAdd(id) ==
    /\ wProd = "idle"
    /\ QueueAdd(id)
    /\ IF qRes'.ok
       THEN /\ wSince' = IF wCons = "idle" THEN wSince ELSE wSince \cup {id}
            /\ IF ConditionLocked
               THEN wProd' = "notify" /\ UNCHANGED wCons
               ELSE wProd' = "idle" /\ wCons' = notify(wCons)
       ELSE UNCHANGED <<wCons, wProd, wSince>>

\* add, lines 134-135, once the lock of _not_empty is free
WaitNotify ==
    /\ wProd = "notify"
    /\ ~ConditionLocked
    /\ wCons' = notify(wCons)
    /\ wProd' = "idle"
    /\ UNCHANGED <<queueVars, wSince>>

\* get, lines 165-167 and 177-188: with an item in the heap it is popped at
\* once, else the consumer goes on to wait
WaitGetEnter ==
    /\ wCons = "idle"
    /\ wProd = "idle"
    /\ wSince' = {}
    /\ IF qHeap = << >>
       THEN /\ wCons' = "entering"
            /\ qRes' = NoCall
            /\ UNCHANGED <<qHeap, qSeen, qBlock, qNow, qAccepted>>
       ELSE QueueGet /\ UNCHANGED wCons
    /\ UNCHANGED wProd

\* get, lines 169-172: Condition.wait() releases the lock and awaits its
\* future under the timer of wait_for
WaitGetWait ==
    /\ wCons = "entering"
    /\ wCons' = "waiting"
    /\ UNCHANGED <<queueVars, wProd, wSince>>

\* get, lines 173-174: the timer of wait_for expires on the unresolved
\* future.  A producer that is ready to run (suspended on the lock that
\* wait() has just released) runs before a timer armed in the same turn.
WaitGetTimeout ==
    /\ wCons = "waiting"
    /\ wProd = "idle"
    /\ wCons' = "idle"
    /\ qRes' = [op |-> "get", id |-> "none", ok |-> FALSE]
    /\ UNCHANGED <<qHeap, qSeen, qBlock, qNow, qAccepted, wProd, wSince>>

\* get, lines 167 and 177-188: the notified consumer takes the lock again,
\* tests the heap again and pops; with an empty heap it waits again
WaitGetWake ==
    /\ wCons = "notified"
    /\ IF qHeap = << >>
       THEN /\ wCons' = "entering"
            /\ UNCHANGED queueVars
       ELSE QueueGet /\ wCons' = "idle"
    /\ UNCHANGED <<wProd, wSince>>

\* time passes
WaitTick == QueueTick /\ UNCHANGED <<wCons, wProd, wSince>>

\* nobody is inside get or add
WaitQuiet ==
    /\ wCons = "idle"
    /\ wProd = "idle"
    /\ wSince = {}

WaitInit == WaitQuiet

WaitAddCall == \E id \in InvIds : WaitAdd(id) /\ UNCHANGED othersOfWait
WaitNotifyCall == WaitNotify /\ UNCHANGED othersOfWait
WaitGetCall == WaitGetEnter /\ UNCHANGED othersOfWait
WaitGetBlock == WaitGetWait /\ UNCHANGED othersOfWait
WaitGetExpire == WaitGetTimeout /\ UNCHANGED othersOfWait
WaitGetResume == WaitGetWake /\ UNCHANGED othersOfWait
WaitClock == WaitTick /\ UNCHANGED othersOfWait

NextWait ==
    \/ WaitAddCall
    \/ WaitNotifyCall
    \/ WaitGetCall
    \/ WaitGetBlock
    \/ WaitGetExpire
    \/ WaitGetResume
    \/ WaitClock

(***************************************************************************)
(* The order of delivery on the event bus: api/event_bus.py, api/app.py,   *)
(* api/routes/events.py.  The tailer is the only caller of publish and     *)
(* awaits every call before the next row of its query, so the calls follow *)
(* one another; subscribers come, read and go between them.                *)
(***************************************************************************)
\* the events, numbered by the call of publish that is given them
BusEvents == 1..MaxPublished

\* EventBus.publish: put_nowait on the queue of every subscriber, QueueFull
\* is logged and the event is dropped for that subscriber
BusPublish(ev) ==
    /\ Len(uPublished) < MaxPublished
    /\ ev = Len(uPublished) + 1
    /\ uPublished' = Append(uPublished, ev)
    /\ uQueue' = [s \in Subscribers |->
                     IF s \in uSubs THEN queue_put(uQueue[s], ev, BusCapacity)
                     ELSE uQueue[s]]
    /\ uDropped' = [s \in Subscribers |->
                       IF s \in uSubs /\ uQueue'[s] = uQueue[s]
                       THEN uDropped[s] \cup {ev} ELSE uDropped[s]]
    /\ UNCHANGED <<uSubs, uRecv>>

\* EventBus.subscription, entering: a new subscriber id with a new queue
BusSubscribe(s) ==
    /\ s \notin uSubs
    /\ uSubs' = uSubs \cup {s}
    /\ uQueue' = [uQueue EXCEPT ![s] = << >>]
    /\ uRecv' = [uRecv EXCEPT ![s] = << >>]
    /\ uDropped' = [uDropped EXCEPT ![s] = {}]
    /\ UNCHANGED uPublished

\* EventBus.subscription, leaving
BusUnsubscribe(s) ==
    /\ s \in uSubs
    /\ uSubs' = uSubs \ {s}
    /\ UNCHANGED <<uQueue, uPublished, uRecv, uDropped>>

\* event_generator: queue.get hands the oldest waiting event to the client
BusRead(s) ==
    /\ s \in uSubs
    /\ uQueue[s] # << >>
    /\ uRecv' = [uRecv EXCEPT ![s] = Append(@, Head(uQueue[s]))]
    /\ uQueue' = [uQueue EXCEPT ![s] = Tail(@)]
    /\ UNCHANGED <<uSubs, uPublished, uDropped>>

\* no subscriber, nothing published
BusQuiet ==
    /\ uSubs = {}
    /\ uQueue = [s \in Subscribers |-> << >>]
    /\ uPublished = << >>
    /\ uRecv = [s \in Subscribers |-> << >>]
    /\ uDropped = [s \in Subscribers |-> {}]

BusInit == BusQuiet

BusPublishCall == \E ev \in BusEvents : BusPublish(ev) /\ UNCHANGED othersOfBus
BusSubscribeCall == \E s \in Subscribers : BusSubscribe(s) /\ UNCHANGED othersOfBus
BusUnsubscribeCall == \E s \in Subscribers : BusUnsubscribe(s) /\ UNCHANGED othersOfBus
BusReadCall == \E s \in Subscribers : BusRead(s) /\ UNCHANGED othersOfBus

NextBus ==
    \/ BusPublishCall
    \/ BusSubscribeCall
    \/ BusUnsubscribeCall
    \/ BusReadCall

(***************************************************************************)
(* Specifications                                                          *)
(***************************************************************************)
HilBackends == {"chat", "dashboard"}

InitialState == [flag |-> FALSE, hd |-> "none", verdict |-> "none", retry |-> 0,
                 case |-> FALSE, rounds |-> 0, feedback |-> NoFeedback]

FlowInit ==
    /\ fMode \in HilBackends
    /\ fWf = "new"
    /\ fState = InitialState
    /\ fResuming = 0
    /\ fChecked = 0
    /\ fLog = << >>
    /\ fInv = NoRow
    /\ fReviews = << >>
    /\ fCall = [u \in RestUsers |-> IdleCall]

\* the store's sessions are not used by SpecFlow, the investigation not by
\* SpecStore
FlowQuiet ==
    /\ fMode = "dashboard"
    /\ fWf = "new"
    /\ fState = InitialState
    /\ fResuming = 0
    /\ fChecked = 0
    /\ fLog = << >>
    /\ fInv = NoRow
    /\ fReviews = << >>
    /\ fCall = [u \in RestUsers |-> IdleCall]

InitStore == StoreInit /\ FlowQuiet /\ GraphInit /\ QueueInit /\ PollerInit /\ CorrelatorQuiet /\ SseQuiet /\ SeverityQuiet /\ ClosureQuiet /\ ResumeQuiet /\ ReplayQuiet /\ WaitQuiet /\ BusQuiet

SpecStore == InitStore /\ [][NextStore]_vars

InitFlow == FlowInit /\ StoreInit /\ GraphInit /\ QueueInit /\ PollerInit /\ CorrelatorQuiet /\ SseQuiet /\ SeverityQuiet /\ ClosureQuiet /\ ResumeQuiet /\ ReplayQuiet /\ WaitQuiet /\ BusQuiet

FlowWfStart == WfStart /\ UNCHANGED <<othersOfFlow, fChecked>>
FlowSupervisor == \E a \in {"VERDICT", "CLOSE"} : Supervisor(a) /\ UNCHANGED <<othersOfFlow, fChecked>>
FlowVerdict == \E d \in {"escalate", "close", "needs_more_info"} :
                  Verdict(d) /\ UNCHANGED <<othersOfFlow, fChecked>>
FlowHumanReviewEnter == HumanReviewEnter /\ UNCHANGED <<othersOfFlow, fChecked>>
FlowChatButton == \E d \in {"approve", "reject"} : ChatButton(d) /\ UNCHANGED <<othersOfFlow, fChecked>>
FlowChatPoll == ChatPoll /\ UNCHANGED <<othersOfFlow, fChecked>>
FlowChatTimeout == ChatTimeout /\ UNCHANGED <<othersOfFlow, fChecked>>
FlowResumeLoopCheck == \E rid \in 1..MaxRounds :
                          ResumeLoopCheck(rid) /\ UNCHANGED othersOfFlow
FlowResumeLoopInvoke == \E raised \in BOOLEAN :
                           ResumeLoopInvoke(raised) /\ UNCHANGED othersOfFlow
FlowTheHive == \E created \in BOOLEAN :
                  TheHive(created) /\ UNCHANGED <<othersOfFlow, fChecked>>
FlowClose == Close /\ UNCHANGED <<othersOfFlow, fChecked>>
FlowPause == Pause /\ UNCHANGED <<othersOfFlow, fChecked>>
FlowResume == Resume /\ UNCHANGED <<othersOfFlow, fChecked>>
FlowCancel == Cancel /\ UNCHANGED <<othersOfFlow, fChecked>>
FlowReviewBegin == \E u \in RestUsers, op \in ReviewOps, rid \in 1..MaxRounds :
                      ReviewBegin(u, op, rid) /\ UNCHANGED <<othersOfFlow, fChecked>>
FlowReviewFinish == \E u \in RestUsers : ReviewFinish(u) /\ UNCHANGED <<othersOfFlow, fChecked>>

NextFlow ==
    \/ FlowWfStart
    \/ FlowSupervisor
    \/ FlowVerdict
    \/ FlowHumanReviewEnter
    \/ FlowChatButton
    \/ FlowChatPoll
    \/ FlowChatTimeout
    \/ FlowResumeLoopCheck
    \/ FlowResumeLoopInvoke
    \/ FlowTheHive
    \/ FlowClose
    \/ FlowPause
    \/ FlowResume
    \/ FlowCancel
    \/ FlowReviewBegin
    \/ FlowReviewFinish

SpecFlow == InitFlow /\ [][NextFlow]_vars

InitGraph == GraphInit /\ StoreInit /\ FlowQuiet /\ QueueInit /\ PollerInit /\ CorrelatorQuiet /\ SseQuiet /\ SeverityQuiet /\ ClosureQuiet /\ ResumeQuiet /\ ReplayQuiet /\ WaitQuiet /\ BusQuiet

SpecGraph == InitGraph /\ [][NextGraph]_vars

InitQueue == QueueInit /\ StoreInit /\ FlowQuiet /\ GraphInit /\ PollerInit /\ CorrelatorQuiet /\ SseQuiet /\ SeverityQuiet /\ ClosureQuiet /\ ResumeQuiet /\ ReplayQuiet /\ WaitQuiet /\ BusQuiet

SpecQueue == InitQueue /\ [][NextQueue]_vars

InitPoller == PollerInit /\ StoreInit /\ FlowQuiet /\ GraphInit /\ QueueInit /\ CorrelatorQuiet /\ SseQuiet /\ SeverityQuiet /\ ClosureQuiet /\ ResumeQuiet /\ ReplayQuiet /\ WaitQuiet /\ BusQuiet

SpecPoller == InitPoller /\ [][NextPoller]_vars

InitCorrelator ==
    CorrelatorInit /\ StoreInit /\ FlowQuiet /\ GraphInit /\ QueueInit /\ PollerInit /\ SseQuiet /\ SeverityQuiet /\ ClosureQuiet /\ ResumeQuiet /\ ReplayQuiet /\ WaitQuiet /\ BusQuiet

SpecCorrelator == InitCorrelator /\ [][NextCorrelator]_vars

InitSse ==
    SseInit /\ StoreInit /\ FlowQuiet /\ GraphInit /\ QueueInit /\ PollerInit /\ CorrelatorQuiet /\ SeverityQuiet /\ ClosureQuiet /\ ResumeQuiet /\ ReplayQuiet /\ WaitQuiet /\ BusQuiet

SpecSse == InitSse /\ [][NextSse]_vars

\* poll_events_from_database runs its initial query and then polls every
\* poll_interval for ever
SpecSseFair == SpecSse /\ WF_vars(SseTailerStart) /\ WF_vars(SseTailerPoll)

InitSeverity ==
    SeverityInit /\ StoreInit /\ FlowQuiet /\ GraphInit /\ QueueInit /\ PollerInit /\ CorrelatorQuiet /\ SseQuiet /\ ClosureQuiet /\ ResumeQuiet /\ ReplayQuiet /\ WaitQuiet /\ BusQuiet

SpecSeverity == InitSeverity /\ [][NextSeverity]_vars

InitClosure ==
    ClosureInit /\ StoreInit /\ FlowQuiet /\ GraphInit /\ QueueInit /\ PollerInit /\ CorrelatorQuiet /\ SseQuiet /\ SeverityQuiet /\ ResumeQuiet /\ ReplayQuiet /\ WaitQuiet /\ BusQuiet

SpecClosure == InitClosure /\ [][NextClosure]_vars

InitResume ==
    ResumeInit /\ StoreInit /\ FlowQuiet /\ GraphInit /\ QueueInit /\ PollerInit /\ CorrelatorQuiet /\ SseQuiet /\ SeverityQuiet /\ ClosureQuiet /\ ReplayQuiet /\ WaitQuiet /\ BusQuiet

SpecResume == InitResume /\ [][NextResume]_vars

InitReplay ==
    ReplayInit /\ StoreInit /\ FlowQuiet /\ GraphInit /\ QueueInit /\ PollerInit /\ CorrelatorQuiet /\ SseQuiet /\ SeverityQuiet /\ ClosureQuiet /\ ResumeQuiet /\ WaitQuiet /\ BusQuiet

SpecReplay == InitReplay /\ [][NextReplay]_vars

InitWait ==
    WaitInit /\ QueueInit /\ StoreInit /\ FlowQuiet /\ GraphInit /\ PollerInit /\ CorrelatorQuiet /\ SseQuiet /\ SeverityQuiet /\ ClosureQuiet /\ ResumeQuiet /\ ReplayQuiet /\ BusQuiet

SpecWait == InitWait /\ [][NextWait]_vars

InitBus ==
    BusInit /\ StoreInit /\ FlowQuiet /\ GraphInit /\ QueueInit /\ PollerInit /\ CorrelatorQuiet /\ SseQuiet /\ SeverityQuiet /\ ClosureQuiet /\ ResumeQuiet /\ ReplayQuiet /\ WaitQuiet

SpecBus == InitBus /\ [][NextBus]_vars

\* the event loop runs every task that is ready: the suspended producer, the
\* consumer whose wait() is about to start, and the notified consumer
SpecWaitFair ==
    SpecWait /\ WF_vars(WaitNotifyCall) /\ WF_vars(WaitGetBlock) /\ WF_vars(WaitGetResume)

\* _resume_loop runs _resume_decided_reviews_once again after every sleep
SpecResumeFair == SpecResume /\ WF_vars(ResumeTurn)

(***************************************************************************)
(* Properties of the event store (SpecStore)                               *)
(***************************************************************************)
RowsOf(rows, a) == {r \in rows : r.agg = a}
Contiguous(rows, a) ==
    /\ {r.version : r \in RowsOf(rows, a)} = 1..Cardinality(RowsOf(rows, a))
    /\ \A r1, r2 \in RowsOf(rows, a) : r1.version = r2.version => r1 = r2

\* C1: whatever calls of append and append_batch have succeeded or failed in
\* whatever interleaving of the sessions, the versions stored for an
\* aggregate are exactly 1..n without gap or duplicate, in the committed
\* table and in what every session sees.
C1_VersionsContiguous ==
    \A a \in Aggregates :
        /\ Contiguous(stTable, a)
        /\ \A s \in Sessions : Contiguous(Visible(s), a)

\* a batch has just failed at its flush against rows another session
\* committed meanwhile, and both aggregates have committed events
C1_Witness ==
    /\ stRes.kind = "IntegrityError"
    /\ Cardinality(RowsOf(stTable, stRes.agg)) >= 1
    /\ \E a \in Aggregates \ {stRes.agg} : RowsOf(stTable, a) # {}

\* the call that has just completed was an append with expected_version = e
AppendedWithExpected(e) ==
    stRes.kind # "none" /\ stRes.op = "append" /\ stRes.exp = {e}

\* C2 (as corrected): an append that passes expected_version = e
\*  - stores version e + 1, or returns the stored event of its idempotency
\*    key, only if the version it read was e;
\*  - fails with ConcurrencyError(expected = e, actual) with actual # e, actual
\*    being the aggregate's latest version, when the version it read differs
\*    from e or another session committed version e + 1 before its insert;
\*  - otherwise fails only with IdempotencyError, its key having been
\*    committed by another session after its lookup, or as the victim of a
\*    database deadlock; both after it read version e.
C2_ExpectedVersion ==
    \A e \in 0..MaxEvents :
        AppendedWithExpected(e) =>
            \/ /\ stRes.kind = "ok"
               /\ stRes.cur = e
               /\ stRes.version = e + 1
               /\ get_latest_version(stRes.s, stRes.agg) = e + 1
            \/ /\ stRes.kind = "existing"
               /\ stRes.cur = e
               /\ stRes.key # NoKey
            \/ /\ stRes.kind = "ConcurrencyError"
               /\ stRes.expected = e
               /\ stRes.actual # e
               /\ stRes.actual = get_latest_version(stRes.s, stRes.agg)
               /\ stRes.cur = e => stRes.actual > e
            \/ /\ stRes.kind = "IdempotencyError"
               /\ stRes.cur = e
               /\ stRes.key # NoKey
               /\ \E r \in stTable : r.key = stRes.key
            \/ /\ stRes.kind = "DeadlockDetected"
               /\ stRes.cur = e

\* an append whose version check passed has failed at the insert, another
\* session having committed the next version in between
C2_Witness ==
    /\ stRes.kind = "ConcurrencyError"
    /\ stRes.op = "append"
    /\ stRes.exp = {stRes.cur}
    /\ stRes.actual = stRes.cur + 1

\* C2 as stated: an append with expected_version = e either succeeds, the
\* version read being e, or fails with ConcurrencyError(e, actual)
C2_AsStated ==
    \A e \in 0..MaxEvents :
        AppendedWithExpected(e) =>
            \/ stRes.kind \in {"ok", "existing"} /\ stRes.cur = e
            \/ stRes.kind = "ConcurrencyError" /\ stRes.expected = e

\* C3: an append whose idempotency_key is already stored when it is called
\* returns the stored event (same id), and no second row carries the key.
C3_IdempotentAppend ==
    (stRes.kind # "none" /\ stRes.op = "append" /\ stRes.had # 0) =>
        /\ stRes.kind = "existing"
        /\ stRes.id = stRes.had
        /\ \A r \in Visible(stRes.s) : r.key = stRes.key => r.id = stRes.had

\* the rows of the call that wrote row r are all in the set of rows, with
\* consecutive versions in the order of the events of the call
WholeCall(rows, r) ==
    \A i \in 0..(r.n - 1) :
        \E q \in rows :
            /\ q.id = r.first + i
            /\ q.first = r.first
            /\ q.agg = r.agg
            /\ q.version = r.version + (q.id - r.id)

\* C23: append_batch of k events stores all k events, in the given order,
\* with versions current+1 .. current+k, or none of them: in the committed
\* table and in what every session sees a row of a batch comes with all the
\* rows of the batch, and a batch that failed has stored no row.
C23_BatchAllOrNone ==
    /\ \A r \in stTable : WholeCall(stTable, r)
    /\ \A s \in Sessions : \A r \in Visible(s) : WholeCall(Visible(s), r)
    /\ stRes.op = "batch" /\ stRes.kind = "ok" =>
           \A i \in 1..stRes.n :
               \E r \in stPend[stRes.s] :
                   r.id = stRes.id + i - 1 /\ r.version = stRes.cur + i /\ r.agg = stRes.agg
    /\ stRes.op = "batch" /\ stRes.kind \notin {"ok", "none"} =>
           \A s \in Sessions : \A r \in Visible(s) : r.id < stNextId

\* a batch of two events is committed and a later batch on the same
\* aggregate has failed
C23_Witness ==
    /\ \E r \in stTable : r.n = 2
    /\ stRes.op = "batch"
    /\ stRes.kind \notin {"ok", "none"}

\* C24: an event that has been appended is never deleted or changed: the
\* committed events only grow, and a call of append that ends, with the
\* event, with the stored event of its idempotency key or with the
\* ConcurrencyError or IdempotencyError of a failed insert and its rollback,
\* leaves every event that its session had appended before.
C24_AppendedEventsStay ==
    [][/\ stTable \subseteq stTable'
       /\ \A s \in Sessions :
              /\ stPc[s].op = "append"
              /\ stPc'[s].op = "idle"
              /\ stRes'.s = s
              /\ stRes'.kind \in {"ok", "existing", "ConcurrencyError", "IdempotencyError"}
              => stPend[s] \subseteq stPend'[s]]_vars

(***************************************************************************)
(* Properties of the investigation (SpecFlow)                              *)
(***************************************************************************)
FinalStatuses == {"escalated", "closed", "auto_closed", "rejected", "cancelled"}

Decisions == {i \in 1..Len(fLog) : fLog[i].type = "HUMAN_DECISION_RECEIVED"}

\* C4: the row rebuilt by replaying the aggregate's events in version order
\* from a blank state equals the row built online.
C4_ReplayEqualsOnline == fInv = Replay(fLog, Len(fLog))

\* C5: a review the dashboard has decided has exactly one
\* HUMAN_DECISION_RECEIVED event, whichever backend the workflow waits on.
C5_OneDecisionEvent ==
    \A i \in 1..Len(fReviews) : fReviews[i].oks > 0 => fReviews[i].hdrs = 1

\* a REST review call ends in this step
Answered(u) == fCall[u].step = "locked" /\ fCall'[u].step = "idle"

C7_FinalStatusStays ==
    [][fInv.status \in FinalStatuses => fInv'.status = fInv.status]_vars

AllowedChanges ==
    {<<"pending", "in_progress">>, <<"in_progress", "paused">>,
     <<"paused", "in_progress">>}
    \cup {<<"in_progress", s>> : s \in FinalStatuses}

\* C8: every change of the status of an existing row is one of the allowed
\* changes.
C8_StatusStateMachine ==
    [][(fInv # NoRow /\ fInv'.status # fInv.status) =>
           <<fInv.status, fInv'.status>> \in AllowedChanges]_vars

\* C9: at most one review of the investigation is pending.
C9_AtMostOnePending == Cardinality(PendingIds(fReviews)) <= 1

\* HUMAN_REVIEW_REQUESTED has been projected twice while a review was
\* pending or decided: one review is decided, one is pending
C9_Witness ==
    /\ Len(fReviews) = 2
    /\ PendingIds(fReviews) = {2}
    /\ Cardinality({i \in 1..Len(fLog) :
                       fLog[i].type = "HUMAN_REVIEW_REQUESTED"}) >= 3

\* C10: once a HUMAN_DECISION_RECEIVED event has been projected, exactly one
\* review exists for the investigation, with the status of the last decision.
C10_OneReviewWithDecision ==
    Decisions # {} =>
        /\ Len(fReviews) = 1
        /\ fReviews[1].status = DecisionStatus(fLog[Max(Decisions)].d)

DecidedStatuses == {"approved", "rejected", "info_requested"}

\* C11: a review whose status is approved, rejected or info_requested keeps
\* that status in every later step: it never returns to pending and never
\* takes another status.
C11_DecidedStays ==
    [][\A i \in 1..Len(fReviews) :
          fReviews[i].status \in DecidedStatuses =>
              /\ i <= Len(fReviews')
              /\ fReviews'[i].status = fReviews[i].status]_vars

\* the dashboard has approved the review, and a later HUMAN_DECISION_RECEIVED
\* event with another decision has been projected without touching it
C11_Witness ==
    /\ Len(fReviews) = 1
    /\ fReviews[1].status = "approved"
    /\ Decisions # {}
    /\ fLog[Max(Decisions)].d = "more_info"

\* C12: workflow_resumed_at of a review is assigned at most once by the resume
\* loop, and only for a review that is approved, rejected or info_requested.
C12_ResumedOnce ==
    \A i \in 1..Len(fReviews) :
        /\ fReviews[i].sets <= 1
        /\ fReviews[i].resumed <=> fReviews[i].sets = 1
        /\ fReviews[i].resumed => fReviews[i].status \in DecidedStatuses

\* the loop has handled two decided reviews of the investigation, one by
\* resuming the graph and one after the graph had ended
C12_Witness ==
    /\ Len(fReviews) = 2
    /\ fReviews[1].sets = 1
    /\ fReviews[2].sets = 1
    /\ fResuming = 0

StoppedStatuses == {"paused", "cancelled", "closed", "auto_closed"}

\* the resume loop delivers a decision to the interrupted graph in this step
GraphResumed == fResuming = 0 /\ fResuming' # 0

\* C13: the resume loop never resumes the graph of an investigation whose
\* status is paused, cancelled, closed or auto_closed.
C13_NoResumeWhenStopped ==
    [][GraphResumed => fInv.status \notin StoppedStatuses]_vars

\* INVESTIGATION_CANCELLED has been stored for the investigation
CancelEmitted == \E i \in 1..Len(fLog) : fLog[i].type = "INVESTIGATION_CANCELLED"

\* a node of the graph returns in this step and the engine routes on
NodeReturns == fWf' # fWf /\ fWf' \notin {"hil_wait", "interrupted"}

\* C14: once INVESTIGATION_CANCELLED has been emitted, the node in progress is
\* the last supervisor, worker, verdict or human-review node to run: when it
\* returns the engine goes to close, and from close to the end.
C14_CancelGoesToClose ==
    [][(CancelEmitted /\ NodeReturns) => fWf' \in {"close", "end"}]_vars

(***************************************************************************)
(* Properties of the graph (SpecGraph)                                     *)
(***************************************************************************)
\* the verdict node returns needs_more_info in this step
NeedsMoreInfoVerdict == gNode = "verdict" /\ gNmi' = gNmi + 1

\* C15: the first and the second needs_more_info verdict of a workflow route
\* back to the supervisor, the third routes to human_review.
C15_ThirdVerdictToReview ==
    [][NeedsMoreInfoVerdict =>
          /\ gNmi' \in {1, 2} => gNode' = "supervisor"
          /\ gNmi' = 3 => gNode' = "human_review"]_vars

\* C16: from the invocation in which iteration_count reaches MAX_ITERATIONS
\* on, the supervisor's decision is VERDICT, and no worker node runs after
\* the tenth invocation of the supervisor.
C16_IterationBound ==
    /\ gSup >= MAX_ITERATIONS => gAction = "VERDICT"
    /\ gNode \in WorkerNodes => gSup < MAX_ITERATIONS
    /\ gIter = gSup

\* the supervisor has been invoked an eleventh time, after nine rounds
\* through the workers, and the verdict was forced again
C16_Witness ==
    /\ gSup = MAX_ITERATIONS + 1
    /\ gNode = "verdict"
    /\ gNmi >= 1

(***************************************************************************)
(* Properties of the investigation queue (SpecQueue)                       *)
(***************************************************************************)
\* rank of a severity: critical before high before medium before low
SeverityRank(sev) ==
    CASE sev = "critical" -> 1 [] sev = "high" -> 2 [] sev = "medium" -> 3
      [] OTHER -> 4

\* C17: the investigation get has just returned is of no lower severity than
\* any investigation still in the queue.
C17_HighestSeverityFirst ==
    (qRes.op = "get" /\ qRes.ok) =>
        \A k \in 1..Len(qHeap) :
            SeverityRank(Pool[qRes.id].sev) <= SeverityRank(Pool[qHeap[k].id].sev)

\* get has returned the critical investigation, which was added after the
\* two that are still queued
C17_Witness ==
    /\ qRes.op = "get"
    /\ qRes.id = "i2"
    /\ Len(qHeap) = 2
    /\ \E a \in qAccepted : a.id = "i2" /\ a.at > 0

\* an investigation with this title was accepted less than
\* TITLE_BLOCK_MINUTES before now
AcceptedRecently(title) ==
    \E a \in qAccepted : a.title = title /\ qNow - a.at < TITLE_BLOCK_MINUTES

EnqueueTime(id) == (CHOOSE a \in qAccepted : a.id = id).at

\* C38: the investigation get has just returned was not enqueued later than
\* any investigation of the same severity that is still in the queue.
C38_FifoAmongEqualSeverity ==
    (qRes.op = "get" /\ qRes.ok) =>
        \A k \in 1..Len(qHeap) :
            Pool[qHeap[k].id].sev = Pool[qRes.id].sev =>
                EnqueueTime(qRes.id) <= EnqueueTime(qHeap[k].id)

(***************************************************************************)
(* Properties of the alert poller (SpecPoller)                             *)
(***************************************************************************)
\* C19: whatever the fetches return, no alert id is returned by poll() more
\* than once, and an alert of the buffer is one that was not returned yet.
C19_AlertReturnedOnce ==
    /\ \A id \in AlertIds : pCount[id] <= 1
    /\ \A k \in 1..Len(pBuffer) : pCount[pBuffer[k]] = 0

\* the SIEM has returned an alert again after poll() had returned it, and
\* the last poll returned another alert
C19_Witness ==
    /\ \E id \in pRefetched : pCount[id] = 1
    /\ pBatch # << >>
    /\ \A k \in 1..Len(pBatch) : pBatch[k] \notin pRefetched

(***************************************************************************)
(* Properties of the alert correlator (SpecCorrelator)                     *)
(***************************************************************************)
\* the investigations of the result that hold the alert
InvestigationsOf(alert) ==
    {k \in 1..Len(cResult) :
        \E i \in 1..Len(cResult[k].alerts) : cResult[k].alerts[i] = alert}

\* two alerts of the batch that share their correlation key and lie further
\* apart than the correlation window
OutsideWindow(a, b) ==
    /\ a.id # b.id
    /\ a.key # 0
    /\ a.key = b.key
    /\ a.timestamp - b.timestamp > correlation_window_minutes

\* C20: two alerts of one batch that share their correlation key and whose
\* timestamps differ by more than the correlation window are returned by
\* correlate() in two separate investigations; neither is merged with the
\* other or dropped.
C20_OutsideWindowSeparated ==
    cDone =>
        \A i, j \in 1..Len(cAlerts) :
            OutsideWindow(cAlerts[i], cAlerts[j]) =>
                /\ InvestigationsOf(cAlerts[i]) # {}
                /\ InvestigationsOf(cAlerts[j]) # {}
                /\ InvestigationsOf(cAlerts[i]) \cap InvestigationsOf(cAlerts[j]) = {}

(***************************************************************************)
(* Properties of the event tailer and the event bus (SpecSse)              *)
(***************************************************************************)
\* C21: publish never blocks: every event the tailer took from its query was
\* published; a subscriber whose queue was at capacity did not get the
\* event, and every subscriber whose queue had room got it.
C21_PublishDropsOnlyWhenFull ==
    \A k \in 1..Len(bLog) :
        /\ bLog[k].put = {s \in bLog[k].subs : bLog[k].lens[s] < MaxBusQueue}
        /\ bLog[k].ev \in tSeen
        /\ \E i \in 1..Len(tPublished) : tPublished[i] = bLog[k].ev

\* one publish found the queue of a subscriber full and put the event in
\* the queue of another
C21_Witness ==
    \E k \in 1..Len(bLog) :
        /\ bLog[k].put # {}
        /\ bLog[k].subs \ bLog[k].put # {}

\* C22: subscribers see events in the order of their timestamps: the tailer
\* never publishes an event after an event with a later timestamp.
C22_PublishedInTimestampOrder ==
    \A i, j \in 1..Len(tPublished) :
        i < j => eTs[tPublished[i]] <= eTs[tPublished[j]]

(***************************************************************************)
(* Properties of max_severity of the read model (SpecSeverity)             *)
(***************************************************************************)
\* the order low < medium < high < critical, None below all
SeverityLevel(sev) ==
    CASE sev = "none" -> 0 [] sev = "low" -> 1 [] sev = "medium" -> 2
      [] sev = "high" -> 3 [] sev = "critical" -> 4

\* C25: across the events applied to an investigation the max_severity of
\* the read model never decreases in the order low < medium < high <
\* critical.
C25_MaxSeverityMonotone ==
    [][SeverityLevel(mMax') >= SeverityLevel(mMax)]_vars

\* the ALERT_CORRELATED of an alert of lower severity than max_severity has
\* been projected after the one of the alert of the highest severity
C25_Witness ==
    /\ mPos >= 3
    /\ \E i, j \in 1..(mPos - 1) :
           /\ i < j
           /\ SeverityLevel(mAlerts[j].severity) < SeverityLevel(mAlerts[i].severity)
    /\ mMax = max_severity(mAlerts)

(***************************************************************************)
(* Properties of the status of a closed investigation (SpecClosure)        *)
(***************************************************************************)
\* the resolution starts with "closed by AI verdict"
StartsWithClosedByAiVerdict(res) ==
    res # << >> /\ res[1].label = ReasonAiClose

\* C26: on INVESTIGATION_CLOSED the status is set by the first rule that
\* matches: a TheHive case id is present -> escalated; the resolution
\* contains "rejected" -> rejected; verdict_decision = close and the
\* resolution starts with "closed by AI verdict" -> auto_closed; otherwise
\* closed.
C26_FinalStatusByFirstRule ==
    kDone =>
        kRow.status =
            IF kRow.case THEN "escalated"
            ELSE IF ContainsRejected(kEv.res) THEN "rejected"
            ELSE IF kEv.vd = "close" /\ StartsWithClosedByAiVerdict(kEv.res)
                 THEN "auto_closed"
            ELSE "closed"

(***************************************************************************)
(* Properties of the resume loop (SpecResumeFair)                          *)
(***************************************************************************)
\* C27: every decided review without workflow_resumed_at whose investigation
\* is neither paused nor terminal and whose checkpoint holds a human-review
\* interrupt is eventually resumed and marked by the resume loop, no matter
\* how many other decided reviews the loop keeps skipping.
C27_InterruptedReviewEventuallyResumed ==
    <>(\A r \in ReviewIds :
           rKind[r] = "interrupted" => r \in rResumed /\ r \in rMarked)

(***************************************************************************)
(* Properties of the suspension at human_review (SpecFlow)                 *)
(***************************************************************************)
\* C28: each time the workflow suspends at the human_review interrupt, on the
\* first and on every later review of the investigation, the node has
\* committed a HUMAN_REVIEW_REQUESTED event for that review and a
\* PendingReview row with status pending exists at the moment of suspension.
C28_SuspensionHasRequestAndPending ==
    [][(fWf = "human_review" /\ fWf' = "interrupted") =>
          /\ Len(fLog') = Len(fLog) + 1
          /\ fLog'[Len(fLog')].type = "HUMAN_REVIEW_REQUESTED"
          /\ PendingIds(fReviews') # {}]_vars

(***************************************************************************)
(* Properties of the chat backend beside the dashboard (SpecFlow)          *)
(***************************************************************************)
\* C29: when the chat backend finds that the dashboard has already decided
\* the review, on a button press or through its polling, the decision it
\* returns to the workflow is the one of the final status: approved ->
\* approve, rejected -> reject, info_requested -> more_info.
C29_ChatReturnsDashboardDecision ==
    [][((\E d \in {"approve", "reject"} : ChatButton(d)) \/ ChatPoll)
          /\ check_already_decided(fReviews) # "none"
       => fState'.hd = ResumeDecision(check_already_decided(fReviews))]_vars

(***************************************************************************)
(* Properties of appends with an idempotency key (SpecReplay)              *)
(***************************************************************************)
\* C30: an append through the projecting store with an idempotency key that
\* is already stored is a no-op: no event is added, and no investigation
\* row, PendingReview row or metrics counter changes.
C30_StoredKeyAppendIsNoOp ==
    [][(yCall'.n # yCall.n /\ yCall'.hit) =>
          /\ yLog' = yLog
          /\ yInv' = yInv
          /\ yReviews' = yReviews
          /\ yMetrics' = yMetrics]_vars

(***************************************************************************)
(* Retried appends (SpecStore)                                             *)
(***************************************************************************)
\* C31: a retry of an append that already succeeded, made with the same
\* idempotency_key and the same expected_version as the first attempt (the
\* version before the stored event), is treated as success and returns the
\* existing event.
C31_RetryReturnsExisting ==
    (/\ stRes.kind # "none"
     /\ stRes.op = "append"
     /\ stRes.had # 0
     /\ \E r \in Visible(stRes.s) :
            /\ r.id = stRes.had
            /\ r.agg = stRes.agg
            /\ stRes.exp = {r.version - 1})
    => /\ stRes.kind = "existing"
       /\ stRes.id = stRes.had

(***************************************************************************)
(* Liveness of the event tailer (SpecSseFair)                              *)
(***************************************************************************)
\* C32: every event committed to the store after the tailer has started is
\* eventually published to the bus, also when it is committed more than one
\* second after its timestamp was assigned.
C32_CommittedEventuallyPublished ==
    \A e \in BusEventIds :
        []((tStarted /\ e \notin eDb) =>
              [](e \in eDb => <>(\E i \in 1..Len(tPublished) : tPublished[i] = e)))

(***************************************************************************)
(* Termination of a run of the graph (SpecGraph)                           *)
(***************************************************************************)
\* the longest run: MAX_ITERATIONS invocations of the supervisor with a
\* worker between them, and twice a verdict, the forced supervisor between
\* them, before the close node
NodeStepBound == 2 * MAX_ITERATIONS + 3

\* C33: from its start, and after each human decision, a workflow runs only
\* a bounded number of nodes before it suspends at human_review or reaches
\* END, whatever the LLM and the analyzers return.
C33_BoundedNodeSteps == gSteps <= NodeStepBound

\* a run of the greatest length has reached END
C33_Witness == gNode = "end" /\ gSteps = NodeStepBound

(***************************************************************************)
(* Closing events of an investigation (SpecFlow)                           *)
(***************************************************************************)
\* C34: at most one closing event (INVESTIGATION_CLOSED or
\* INVESTIGATION_CANCELLED) is ever appended for the investigation, under
\* any interleaving of the close node, the REST cancel and reject endpoints
\* and the resume loop.
C34_AtMostOneClosingEvent ==
    Cardinality({i \in 1..Len(fLog) :
        fLog[i].type \in {"INVESTIGATION_CLOSED", "INVESTIGATION_CANCELLED"}}) <= 1

\* C35: once the workflow of the investigation has reached END, no
\* PendingReview row of the investigation has status pending: resuming the
\* suspended human_review node creates no new pending review for the
\* decision already taken.
C35_NoPendingReviewAfterEnd ==
    fWf = "end" => PendingIds(fReviews) = {}

\* the decision of the latest HUMAN_DECISION_RECEIVED of a log, "none" if
\* there is none
LastDecision(log) ==
    LET ds == {i \in 1..Len(log) : log[i].type = "HUMAN_DECISION_RECEIVED"}
    IN  IF ds = {} THEN "none"
        ELSE log[CHOOSE i \in ds : \A j \in ds : j <= i].d

\* C36: an investigation rejected by a human reviewer ends with read-model
\* status rejected, whether the rejection arrives through the chat backend
\* and the close node or through the dashboard reject endpoint: when
\* INVESTIGATION_CLOSED is appended after a reject decision, the status
\* projected is rejected.
C36_RejectedEndsRejected ==
    [][(/\ Len(fLog') > Len(fLog)
        /\ fLog'[Len(fLog')].type = "INVESTIGATION_CLOSED"
        /\ LastDecision(fLog') = "reject")
       => fInv'.status = "rejected"]_vars

(***************************************************************************)
(* Properties of the timeout of the chat backend (SpecFlow)                *)
(***************************************************************************)
\* C39 as stated: when the timeout expires while the chat backend awaits a
\* decision, the node returns more_info with the feedback "HIL review timed
\* out" and the workflow goes on.
C39_TimeoutFeedbackAsStated ==
    [][FlowChatTimeout =>
          /\ fState'.hd = "more_info"
          /\ fState'.feedback = <<"HIL review timed out">>
          /\ fWf' = route_from_human_review("more_info")]_vars

\* C39: when the timeout expires while the chat backend awaits a decision,
\* the node returns more_info with the feedback "HIL review timed out -
\* please review manually" and the workflow goes on at the supervisor.
C39_TimeoutReturnsMoreInfo ==
    [][FlowChatTimeout =>
          /\ fState'.hd = "more_info"
          /\ fState'.feedback =
                <<"HIL review timed out", " - please review manually">>
          /\ fWf' = "supervisor"]_vars

\* the chat backend timed out and the workflow is back at the supervisor
C39_Witness ==
    /\ fMode = "chat"
    /\ fWf = "supervisor"
    /\ fState.hd = "more_info"
    /\ fState.feedback = <<"HIL review timed out", " - please review manually">>
    /\ fLog # << >>
    /\ fLog[Len(fLog)].type = "HUMAN_DECISION_RECEIVED"

(***************************************************************************)
(* Properties of a consumer blocked in get (SpecWaitFair)                  *)
(***************************************************************************)
\* the consumer is inside get and has not returned
BlockedInGet == wCons \in {"entering", "waiting", "notified"}

\* the call of get that was blocked has returned an investigation
GetReturnedInvestigation == wCons = "idle" /\ qRes.op = "get" /\ qRes.ok

\* C37: when add accepts an investigation while the consumer is blocked in
\* get, that call of get never returns None, and it returns an investigation.
C37_AcceptedAddWakesBlockedGet ==
    /\ [](wCons = "idle" /\ qRes.op = "get" /\ ~qRes.ok => wSince = {})
    /\ ((BlockedInGet /\ wSince # {}) ~> GetReturnedInvestigation)

\* a call of get that blocked on the empty heap has returned the
\* investigation that add accepted meanwhile
C37_Witness ==
    /\ GetReturnedInvestigation
    /\ wSince # {}
    /\ qRes.id \in wSince

(***************************************************************************)
(* Properties of the order of delivery on the event bus (SpecBus)          *)
(***************************************************************************)
\* the number of the call of publish that was given the event
PublishedAt(ev) == CHOOSE k \in 1..Len(uPublished) : uPublished[k] = ev

\* the events of the sequence stand in the order of their publication
InPublishedOrder(evs) ==
    \A i, j \in 1..Len(evs) : i < j => PublishedAt(evs[i]) < PublishedAt(evs[j])

\* C40: for every subscriber, the events it has received followed by the
\* events waiting in its queue stand in the order in which they were
\* published, whatever was dropped on its full queue in between.
C40_DeliveredInPublishedOrder ==
    \A s \in Subscribers : InPublishedOrder(uRecv[s] \o uQueue[s])

\* a subscriber has received two events between which an event was
\* published that its full queue dropped
C40_Witness ==
    \E s \in Subscribers :
        \E i \in 1..Len(uRecv[s]) - 1 :
            \E d \in uDropped[s] :
                /\ PublishedAt(uRecv[s][i]) < PublishedAt(d)
                /\ PublishedAt(d) < PublishedAt(uRecv[s][i + 1])

====
